---- MODULE Spec2Model ----
(***************************************************************************)
(* HarryUP transcript editor: the segment store (src/store.ts), the undo / *)
(* redo history and the session handling of the two App components of the  *)
(* repository: the zustand based one (src/App.tsx, second component, with  *)
(* src/store.ts) and the useState based one (src/unnamed/part_003).  The   *)
(* external calls (transcribe, refine, correct one segment) are issued by  *)
(* one action and answered by another; the answering action works with the *)
(* history, cursor and mode its handler's closure captured at the call.    *)
(* The first component of src/App.tsx (store based, with the API key       *)
(* screen and the reviewed download) is the third variant, and the service *)
(* functions refineTranscript and correctSegmentText with generateWithRetry *)
(* (src/services/geminiService.ts, src/unnamed/part_000) have a            *)
(* specification of their own.  A last specification follows the arrays    *)
(* and objects that the store and the history entries refer to.            *)
(***************************************************************************)
EXTENDS Integers, Sequences, FiniteSets, TLC

\* ------------------------------------------------------------------ bounds
MaxSegs == 3
MaxTextLen == 1
MaxSteps == 5
MaxCalls == 2
MaxRetries == 3

\* ------------------------------------------------------------- vocabulary
Variants == {"store", "local"}
EditModes == {"RAW", "CLEANED", "JOURNALISTIC"}
Chars == {"a", " "}
NullId == -1

\* transcribeAudio accepts files of up to 25 MB; sizes are counted in MB
FileSizeCeiling == 25
FileSizes == {FileSizeCeiling, FileSizeCeiling + 1}

\* texts are sequences of characters
RECURSIVE TextsOfLen(_)
TextsOfLen(n) ==
  IF n = 0 THEN {<<>>}
  ELSE {Append(t, c) : t \in TextsOfLen(n - 1), c \in Chars}

Texts == UNION {TextsOfLen(n) : n \in 0..MaxTextLen}

\* `seg-${index}-${Date.now()}`, `seg-split-${Date.now()}`,
\* `seg-refined-${index}-${Date.now()}`
SegId(kind, index, t) == [k |-> kind, i |-> index, t |-> t]
UnknownId == SegId("none", 0, 0)

Item(sp, st, tx) == [speaker |-> sp, startTime |-> st, text |-> tx]
Segment(id, sp, st, tx) == [id |-> id, speaker |-> sp, startTime |-> st, text |-> tx]

\* transcribeAudio: data.map((item, index) => ({...item, id: `seg-${index}-${Date.now()}`}))
transcribed(data, t) ==
  [j \in 1..Len(data) |->
     Segment(SegId("seg", j - 1, t), data[j].speaker, data[j].startTime, data[j].text)]

\* ------------------------------------------------------- string functions
\* String.prototype.substring(0, pos) and substring(pos)
substringTo(text, pos) == SubSeq(text, 1, pos)
substringFrom(text, pos) == SubSeq(text, pos + 1, Len(text))

RECURSIVE trimStart(_)
trimStart(text) ==
  IF text = <<>> THEN <<>>
  ELSE IF Head(text) = " " THEN trimStart(Tail(text)) ELSE text

RECURSIVE trimEnd(_)
trimEnd(text) ==
  IF text = <<>> THEN <<>>
  ELSE IF text[Len(text)] = " " THEN trimEnd(SubSeq(text, 1, Len(text) - 1)) ELSE text

\* String.prototype.trim
trim(text) == trimEnd(trimStart(text))

\* ------------------------------------------------------ sequence functions
\* Array.prototype.findIndex, 1-based, 0 when absent
RECURSIVE findIndexFrom(_, _, _)
findIndexFrom(segs, id, i) ==
  IF i > Len(segs) THEN 0
  ELSE IF segs[i].id = id THEN i ELSE findIndexFrom(segs, id, i + 1)

findIndex(segs, id) == findIndexFrom(segs, id, 1)

\* Array.prototype.filter(s => s.id !== id)
RECURSIVE filterOut(_, _)
filterOut(segs, id) ==
  IF segs = <<>> THEN <<>>
  ELSE IF Head(segs).id = id THEN filterOut(Tail(segs), id)
       ELSE <<Head(segs)>> \o filterOut(Tail(segs), id)

\* splice(index, 1) and splice(index, 0, x), 1-based index
removeAt(segs, i) == SubSeq(segs, 1, i - 1) \o SubSeq(segs, i + 1, Len(segs))
insertAt(segs, i, x) == SubSeq(segs, 1, i - 1) \o <<x>> \o SubSeq(segs, i, Len(segs))

\* ------------------------------------------------- segment store (store.ts)
\* a variant that writes the new text into every segment
updatedTextEverywhere(segs, id, newText) ==
  [i \in 1..Len(segs) |-> [segs[i] EXCEPT !.text = newText]]

updatedText(segs, id, newText) ==
  [i \in 1..Len(segs) |->
     IF segs[i].id = id THEN [segs[i] EXCEPT !.text = newText] ELSE segs[i]]

updatedSpeaker(segs, id, newSpeaker) ==
  [i \in 1..Len(segs) |->
     IF segs[i].id = id THEN [segs[i] EXCEPT !.speaker = newSpeaker] ELSE segs[i]]

deletedSegments(segs, id) == filterOut(segs, id)

\* a variant that treats the first segment as mergeable, dropping it
mergedSegmentsFirstDropped(segs, id) ==
  LET index == findIndex(segs, id) IN
  IF index = 0 THEN segs
  ELSE IF index = 1 THEN Tail(segs)
  ELSE LET prevSegment == segs[index - 1]
           currentSegment == segs[index]
           mergedText == prevSegment.text \o <<" ">> \o currentSegment.text
           newSegments == [segs EXCEPT ![index - 1] = [prevSegment EXCEPT !.text = mergedText]]
       IN removeAt(newSegments, index)

mergedSegments(segs, id) ==
  LET index == findIndex(segs, id) IN
  IF index <= 1 THEN segs
  ELSE LET prevSegment == segs[index - 1]
           currentSegment == segs[index]
           mergedText == prevSegment.text \o <<" ">> \o currentSegment.text
           newSegments == [segs EXCEPT ![index - 1] = [prevSegment EXCEPT !.text = mergedText]]
       IN removeAt(newSegments, index)

splitSegments(segs, id, cursorPosition, t) ==
  LET index == findIndex(segs, id) IN
  IF index = 0 THEN segs
  ELSE LET originalSegment == segs[index]
           textBefore == trim(substringTo(originalSegment.text, cursorPosition))
           textAfter == trim(substringFrom(originalSegment.text, cursorPosition))
           newSegments == [segs EXCEPT ![index] = [originalSegment EXCEPT !.text = textBefore]]
       IN insertAt(newSegments, index + 1,
                   Segment(SegId("split", 0, t), "?", originalSegment.startTime, textAfter))

\* ---------------------------------------------------------------- history
HistoryState(segs, mode) == [segments |-> segs, mode |-> mode]

\* addToHistory: the new (history, historyIndex) from the ones the closure holds
addToHistory(hist, idx, newSegments, mode) ==
  LET newHistory == Append(SubSeq(hist, 1, idx + 1), HistoryState(newSegments, mode))
  IN [history |-> newHistory, historyIndex |-> Len(newHistory) - 1]


\* ------------------------------------------------------------------ state
VARIABLES
  variant,        \* which App component runs: "store" (App.tsx + store.ts) or "local" (part_003)
  now,            \* Date.now()
  sessionId,      \* NullId for null
  file,           \* TRUE when a media file is attached (file !== null)
  segments,
  editMode,
  status,         \* processingState.status
  history,
  historyIndex,
  savedSessions,
  isDirty,        \* isDirtyRef.current
  saveStatus,     \* 'idle' | 'saving' | 'saved' | 'error'
  storage,        \* the catalog in local storage, as written last
  saveTimer,      \* TRUE while the timeout set by the periodic save is pending
  language,
  correctingSegmentId, \* the segment whose correction call was issued last, UnknownId for null
  calls,          \* external calls in flight, each with what its handler's closure holds
  steps,          \* the number of steps taken so far
  lastOp,         \* the handler that ran last, with its arguments
  run,            \* bookkeeping of the commit / undo / redo sequence since the last seeding
  retry,          \* one invocation of generateWithRetry: its loop, its calls and its waits
  needsApiKey,    \* first App component: the screen that asks for an API key is shown
  service,        \* one invocation of a function of the service module
  heap            \* the arrays and objects the store and the history refer to

vars == <<variant, now, sessionId, file, segments, editMode, status, history,
          historyIndex, savedSessions, isDirty, correctingSegmentId, calls, steps, lastOp,
          run, retry, saveStatus, storage, saveTimer, language, needsApiKey, service, heap>>

\* the handler that ran, its arguments and what it ran on: for a split the
\* sequence, for a save or the deletion of a session the catalog; for the answer
\* of a call pos is the id of the session the call was issued for
Op(name, id, pos) ==
  [op |-> name, id |-> id, pos |-> pos,
   segs |-> IF name = "split" THEN segments ELSE <<>>,
   cat |-> IF name \in {"save", "deleteSession"} THEN savedSessions ELSE <<>>]

\* what the collaborators may answer
Transcripts1 == <<Item("S1", "00:00", <<"a">>), Item("S2", "00:07", <<"a">>)>>
Transcripts2 == <<Item("S3", "00:00", <<"a", " ", "a">>)>>
Transcripts == {Transcripts1}

RefinedItem(mode) == Item("S1", "00:00", <<>>)

RefineAnswers(n, mode) == { [i \in 1..n |-> RefinedItem(mode)] }

\* texts and speakers typed into the editor
EditTexts == {<<" ">>}
EditSpeakers == {"S2"}

StoredSession(id, segs, lang, mode) ==
  [id |-> id, segments |-> segs, language |-> lang, editMode |-> mode]

\* the catalog found in local storage when the application starts: empty, or two
\* sessions saved by earlier runs (at times 0 and 1)
PersistedSession0 == StoredSession(0, transcribed(Transcripts1, 0), "es", "RAW")
PersistedSession1 == StoredSession(1, transcribed(Transcripts2, 1), "eu", "RAW")
PersistedCatalogs == {<<>>, <<PersistedSession1, PersistedSession0>>}

isProcessing == status \in {"uploading", "transcribing", "refining"}

ids(segs) == [i \in 1..Len(segs) |-> segs[i].id]

\* ids of the segments on screen
ScreenIds == {segments[i].id : i \in 1..Len(segments)}

\* ids an editor callback may be called with: those on screen and one that is not
CallIds == ScreenIds \cup {UnknownId}

\* ---------------------------------------------- bookkeeping for the history
\* run.ph: "c" commits only so far, "u" undoing, "r" redoing, "x" none of these
NoRun == [ph |-> "x", init |-> HistoryState(<<>>, "RAW"), last |-> HistoryState(<<>>, "RAW"),
          k |-> 0, n |-> 0]

RunSeed(hist, idx) ==
  IF Len(hist) = 1 /\ idx = 0
  THEN [ph |-> "c", init |-> hist[1], last |-> hist[1], k |-> 0, n |-> 0]
  ELSE NoRun

RunCommit(r, segs, mode) ==
  IF r.ph = "c" THEN [r EXCEPT !.k = r.k + 1, !.last = HistoryState(segs, mode)] ELSE NoRun

RunUndo(r) ==
  IF r.ph \in {"c", "u"} /\ r.k > 0 /\ r.n < r.k
  THEN [r EXCEPT !.ph = "u", !.n = r.n + 1] ELSE NoRun

RunRedo(r) ==
  IF r.ph = "u" /\ r.n = r.k THEN [r EXCEPT !.ph = "r", !.n = 1]
  ELSE IF r.ph = "r" /\ r.n < r.k THEN [r EXCEPT !.n = r.n + 1] ELSE NoRun

\* ------------------------------------------------------ generateWithRetry
\* what modelInstance.generateContent does on one call: it returns, or it throws
\* an error that carries 429 or 503 in its message, status or code, or neither
Errors == {"message429", "status429", "code429", "message503", "status503", "other"}
Outcomes == {"ok"} \cup Errors

\* error.message?.includes('429') || error.status === 429 || error.code === 429
isRateLimit(error) == error \in {"message429", "status429", "code429"}

\* a variant that takes every other error for an overload too
isOverloadedOrOther(error) == error \in {"message503", "status503", "other"}

\* error.message?.includes('503') || error.status === 503
isOverloaded(error) == error \in {"message503", "status503"}

\* a variant that counts the last attempt as one that may be retried
attemptsLeftWithLast(i, retries) == i < retries

\* i < retries - 1
attemptsLeft(i, retries) == i < retries - 1

BaseDelay == 3000
DefaultRetries == 3

\* a variant that waits the same time before every retry
waitTimeFlat(i) == BaseDelay

\* 3000 * Math.pow(2, i)
waitTime(i) == BaseDelay * 2^i

\* no invocation under way
NoInvocation ==
  [pc |-> "none", retries |-> 0, op |-> <<>>, i |-> 0, called |-> 0, waits |-> <<>>,
   result |-> "none"]

\* no function of the service module is running
NoService == [pc |-> "none"]

\* no array or object allocated
NoHeap == [arr |-> <<>>, obj |-> <<>>, live |-> 0, hist |-> <<>>]

\* -------------------------------------------------------------------- Init
Init ==
  /\ variant \in Variants
  /\ now = 2
  /\ sessionId = NullId
  /\ file = FALSE
  /\ segments = <<>>
  /\ editMode = "RAW"
  /\ status = "idle"
  /\ history = <<>>
  /\ historyIndex = -1
  /\ savedSessions \in PersistedCatalogs
  /\ isDirty = FALSE
  /\ correctingSegmentId = UnknownId
  /\ calls = <<>>
  /\ steps = 0
  /\ lastOp = Op("init", UnknownId, 0)
  /\ run = NoRun
  /\ retry = NoInvocation
  /\ saveStatus = "idle"
  /\ storage = savedSessions
  /\ saveTimer = FALSE
  /\ language = "es"
  /\ needsApiKey = FALSE
  /\ service = NoService
  /\ heap = NoHeap

\* the effect that marks the session dirty after a render in which one of its
\* dependencies changed
dirtyEffect(handlerDirty, depsChanged, segs, sid) ==
  IF variant # "review" /\ depsChanged /\ Len(segs) > 0 /\ sid # NullId THEN TRUE
  ELSE handlerDirty

\* the same effect sets the save status back to 'idle'
saveStatusEffect(handlerStatus, depsChanged, segs, sid) ==
  IF variant # "review" /\ depsChanged /\ Len(segs) > 0 /\ sid # NullId THEN "idle"
  ELSE handlerStatus

\* one more step of the application
Step == steps < MaxSteps /\ steps' = steps + 1 /\ UNCHANGED <<retry, service, heap>>

\* ------------------------------------------------------------------- clock
Tick ==
  /\ now' = now + 1
  /\ Step
  /\ lastOp' = Op("tick", UnknownId, 0)
  /\ UNCHANGED <<variant, needsApiKey, storage, saveTimer, language, correctingSegmentId, sessionId, file, segments, editMode, status, history,
                 historyIndex, savedSessions, isDirty, saveStatus, calls, run>>

\* the landing page is rendered instead of the header and the editor
landing ==
  IF variant = "local" THEN ~file /\ sessionId = NullId /\ status = "idle"
  ELSE ~needsApiKey /\ sessionId = NullId /\ status = "idle"

\* first App component: a review call is in flight and its overlay covers the page
isReviewing == \E i \in 1..Len(calls) : calls[i].kind = "review"

\* first App component: the header and the editor are rendered and can be reached
sessionView ==
  /\ variant = "review"
  /\ ~needsApiKey
  /\ ~(sessionId = NullId /\ status = "idle")
  /\ ~isReviewing

\* the editor is rendered and accepts input
editorActive ==
  IF variant = "review" THEN sessionView
  ELSE /\ ~landing
       /\ IF variant = "store" THEN status # "error"
          ELSE status \notin {"error", "transcribing", "uploading", "refining"}

\* ------------------------------------------------------------ undo / redo
\* a variant that installs the entry at the cursor instead of the one before it
handleUndoStays ==
  /\ ~landing
  /\ variant = "local" => ~isProcessing
  /\ IF historyIndex > 0
     THEN LET state == history[historyIndex + 1] IN
          /\ segments' = state.segments
          /\ editMode' = state.mode
          /\ historyIndex' = historyIndex - 1
     ELSE UNCHANGED <<segments, editMode, historyIndex>>
  /\ isDirty' = dirtyEffect(isDirty, segments' # segments \/ (variant = "local" /\ editMode' # editMode),
                            segments', sessionId)
  /\ saveStatus' = saveStatusEffect(saveStatus, segments' # segments \/ (variant = "local" /\ editMode' # editMode),
                            segments', sessionId)
  /\ Step
  /\ lastOp' = Op("undo", UnknownId, 0)
  /\ run' = RunUndo(run)
  /\ UNCHANGED <<variant, needsApiKey, storage, saveTimer, language, correctingSegmentId, now, sessionId, file, status, history, savedSessions, calls>>

handleUndo ==
  /\ ~landing
  /\ variant = "local" => ~isProcessing
  /\ IF historyIndex > 0
     THEN LET state == history[historyIndex] IN
          /\ segments' = state.segments
          /\ editMode' = state.mode
          /\ historyIndex' = historyIndex - 1
     ELSE UNCHANGED <<segments, editMode, historyIndex>>
  /\ isDirty' = dirtyEffect(isDirty, segments' # segments \/ (variant = "local" /\ editMode' # editMode),
                            segments', sessionId)
  /\ saveStatus' = saveStatusEffect(saveStatus, segments' # segments \/ (variant = "local" /\ editMode' # editMode),
                            segments', sessionId)
  /\ Step
  /\ lastOp' = Op("undo", UnknownId, 0)
  /\ run' = RunUndo(run)
  /\ UNCHANGED <<variant, needsApiKey, storage, saveTimer, language, correctingSegmentId, now, sessionId, file, status, history, savedSessions, calls>>

\* a variant that installs the entry at the cursor instead of the one after it
handleRedoStays ==
  /\ ~landing
  /\ variant = "local" => ~isProcessing
  /\ IF historyIndex < Len(history) - 1
     THEN LET state == history[historyIndex + 1] IN
          /\ segments' = state.segments
          /\ editMode' = state.mode
          /\ historyIndex' = historyIndex + 1
     ELSE UNCHANGED <<segments, editMode, historyIndex>>
  /\ isDirty' = dirtyEffect(isDirty, segments' # segments \/ (variant = "local" /\ editMode' # editMode),
                            segments', sessionId)
  /\ saveStatus' = saveStatusEffect(saveStatus, segments' # segments \/ (variant = "local" /\ editMode' # editMode),
                            segments', sessionId)
  /\ Step
  /\ lastOp' = Op("redo", UnknownId, 0)
  /\ run' = RunRedo(run)
  /\ UNCHANGED <<variant, needsApiKey, storage, saveTimer, language, correctingSegmentId, now, sessionId, file, status, history, savedSessions, calls>>

handleRedo ==
  /\ ~landing
  /\ variant = "local" => ~isProcessing
  /\ IF historyIndex < Len(history) - 1
     THEN LET state == history[historyIndex + 2] IN
          /\ segments' = state.segments
          /\ editMode' = state.mode
          /\ historyIndex' = historyIndex + 1
     ELSE UNCHANGED <<segments, editMode, historyIndex>>
  /\ isDirty' = dirtyEffect(isDirty, segments' # segments \/ (variant = "local" /\ editMode' # editMode),
                            segments', sessionId)
  /\ saveStatus' = saveStatusEffect(saveStatus, segments' # segments \/ (variant = "local" /\ editMode' # editMode),
                            segments', sessionId)
  /\ Step
  /\ lastOp' = Op("redo", UnknownId, 0)
  /\ run' = RunRedo(run)
  /\ UNCHANGED <<variant, needsApiKey, storage, saveTimer, language, correctingSegmentId, now, sessionId, file, status, history, savedSessions, calls>>



\* ------------------------------------------------- editor, store component
\* App.tsx wires the store's mutators to the editor as they are
updateSegment(id, newText) ==
  /\ variant # "local" /\ editorActive
  /\ id # correctingSegmentId
  /\ segments' = updatedText(segments, id, newText)
  /\ isDirty' = dirtyEffect(isDirty, TRUE, segments', sessionId)
  /\ saveStatus' = saveStatusEffect(saveStatus, TRUE, segments', sessionId)
  /\ Step
  /\ lastOp' = Op("editText", id, 0)
  /\ UNCHANGED <<variant, needsApiKey, storage, saveTimer, language, correctingSegmentId, now, sessionId, file, editMode, status, history,
                 historyIndex, savedSessions, calls, run>>

updateSpeaker(id, newSpeaker) ==
  /\ variant # "local" /\ editorActive
  /\ segments' = updatedSpeaker(segments, id, newSpeaker)
  /\ isDirty' = dirtyEffect(isDirty, TRUE, segments', sessionId)
  /\ saveStatus' = saveStatusEffect(saveStatus, TRUE, segments', sessionId)
  /\ Step
  /\ lastOp' = Op("editSpeaker", id, 0)
  /\ UNCHANGED <<variant, needsApiKey, storage, saveTimer, language, correctingSegmentId, now, sessionId, file, editMode, status, history,
                 historyIndex, savedSessions, calls, run>>

deleteSegment(id) ==
  /\ variant # "local" /\ editorActive
  /\ segments' = deletedSegments(segments, id)
  /\ isDirty' = dirtyEffect(isDirty, TRUE, segments', sessionId)
  /\ saveStatus' = saveStatusEffect(saveStatus, TRUE, segments', sessionId)
  /\ Step
  /\ lastOp' = Op("delete", id, 0)
  /\ UNCHANGED <<variant, needsApiKey, storage, saveTimer, language, correctingSegmentId, now, sessionId, file, editMode, status, history,
                 historyIndex, savedSessions, calls, run>>

mergeSegment(id) ==
  /\ variant # "local" /\ editorActive
  /\ segments' = mergedSegments(segments, id)
  /\ isDirty' = dirtyEffect(isDirty, findIndex(segments, id) > 1, segments', sessionId)
  /\ saveStatus' = saveStatusEffect(saveStatus, findIndex(segments, id) > 1, segments', sessionId)
  /\ Step
  /\ lastOp' = Op("merge", id, 0)
  /\ UNCHANGED <<variant, needsApiKey, storage, saveTimer, language, correctingSegmentId, now, sessionId, file, editMode, status, history,
                 historyIndex, savedSessions, calls, run>>

splitSegment(id, cursorPosition) ==
  /\ variant # "local" /\ editorActive
  /\ segments' = splitSegments(segments, id, cursorPosition, now)
  /\ isDirty' = dirtyEffect(isDirty, findIndex(segments, id) > 0, segments', sessionId)
  /\ saveStatus' = saveStatusEffect(saveStatus, findIndex(segments, id) > 0, segments', sessionId)
  /\ Step
  /\ lastOp' = Op("split", id, cursorPosition)
  /\ UNCHANGED <<variant, needsApiKey, storage, saveTimer, language, correctingSegmentId, now, sessionId, file, editMode, status, history,
                 historyIndex, savedSessions, calls, run>>

\* ------------------------------------------------- editor, local component
handleSegmentChange(id, newText) ==
  /\ variant = "local" /\ editorActive
  /\ segments' = [i \in 1..Len(segments) |->
                    IF segments[i].id = id THEN [segments[i] EXCEPT !.text = newText]
                    ELSE segments[i]]
  /\ isDirty' = dirtyEffect(isDirty, TRUE, segments', sessionId)
  /\ saveStatus' = saveStatusEffect(saveStatus, TRUE, segments', sessionId)
  /\ Step
  /\ lastOp' = Op("editText", id, 0)
  /\ UNCHANGED <<variant, needsApiKey, storage, saveTimer, language, correctingSegmentId, now, sessionId, file, editMode, status, history,
                 historyIndex, savedSessions, calls, run>>

handleSpeakerChange(id, newSpeaker) ==
  /\ variant = "local" /\ editorActive
  /\ segments' = [i \in 1..Len(segments) |->
                    IF segments[i].id = id THEN [segments[i] EXCEPT !.speaker = newSpeaker]
                    ELSE segments[i]]
  /\ isDirty' = dirtyEffect(isDirty, TRUE, segments', sessionId)
  /\ saveStatus' = saveStatusEffect(saveStatus, TRUE, segments', sessionId)
  /\ Step
  /\ lastOp' = Op("editSpeaker", id, 0)
  /\ UNCHANGED <<variant, needsApiKey, storage, saveTimer, language, correctingSegmentId, now, sessionId, file, editMode, status, history,
                 historyIndex, savedSessions, calls, run>>

handleDeleteSegment(id) ==
  /\ variant = "local" /\ editorActive
  /\ LET newSegments == filterOut(segments, id)
         h == addToHistory(history, historyIndex, newSegments, editMode)
     IN /\ segments' = newSegments
        /\ history' = h.history
        /\ historyIndex' = h.historyIndex
        /\ run' = RunCommit(run, newSegments, editMode)
  /\ isDirty' = dirtyEffect(isDirty, TRUE, segments', sessionId)
  /\ saveStatus' = saveStatusEffect(saveStatus, TRUE, segments', sessionId)
  /\ Step
  /\ lastOp' = Op("delete", id, 0)
  /\ UNCHANGED <<variant, needsApiKey, storage, saveTimer, language, correctingSegmentId, now, sessionId, file, editMode, status, savedSessions, calls>>

handleMergeSegment(id) ==
  /\ variant = "local" /\ editorActive
  /\ LET index == findIndex(segments, id) IN
     IF index <= 1
     THEN UNCHANGED <<segments, history, historyIndex, isDirty, saveStatus, run>>
     ELSE /\ LET prevSegment == segments[index - 1]
                 currentSegment == segments[index]
                 mergedText == prevSegment.text \o <<" ">> \o currentSegment.text
                 newSegments == removeAt([segments EXCEPT ![index - 1] =
                                            [prevSegment EXCEPT !.text = mergedText]], index)
                 h == addToHistory(history, historyIndex, newSegments, editMode)
             IN /\ segments' = newSegments
                /\ history' = h.history
                /\ historyIndex' = h.historyIndex
                /\ run' = RunCommit(run, newSegments, editMode)
          /\ isDirty' = dirtyEffect(isDirty, TRUE, segments', sessionId)
          /\ saveStatus' = saveStatusEffect(saveStatus, TRUE, segments', sessionId)
  /\ Step
  /\ lastOp' = Op("merge", id, 0)
  /\ UNCHANGED <<variant, needsApiKey, storage, saveTimer, language, correctingSegmentId, now, sessionId, file, editMode, status, savedSessions, calls>>

handleSplitSegment(id, cursorPosition) ==
  /\ variant = "local" /\ editorActive
  /\ LET index == findIndex(segments, id) IN
     IF index = 0
     THEN UNCHANGED <<segments, history, historyIndex, isDirty, saveStatus, run>>
     ELSE /\ LET originalSegment == segments[index]
                 textBefore == trim(substringTo(originalSegment.text, cursorPosition))
                 textAfter == trim(substringFrom(originalSegment.text, cursorPosition))
                 newSegments ==
                   insertAt([segments EXCEPT ![index] = [originalSegment EXCEPT !.text = textBefore]],
                            index + 1,
                            Segment(SegId("split", 0, now), "?", originalSegment.startTime, textAfter))
                 h == addToHistory(history, historyIndex, newSegments, editMode)
             IN /\ segments' = newSegments
                /\ history' = h.history
                /\ historyIndex' = h.historyIndex
                /\ run' = RunCommit(run, newSegments, editMode)
          /\ isDirty' = dirtyEffect(isDirty, TRUE, segments', sessionId)
          /\ saveStatus' = saveStatusEffect(saveStatus, TRUE, segments', sessionId)
  /\ Step
  /\ lastOp' = Op("split", id, cursorPosition)
  /\ UNCHANGED <<variant, needsApiKey, storage, saveTimer, language, correctingSegmentId, now, sessionId, file, editMode, status, savedSessions, calls>>

\* on blur the pending text edits are committed when they differ from the entry at the cursor
handleSegmentBlur ==
  /\ variant = "local" /\ editorActive
  /\ historyIndex >= 0 /\ historyIndex < Len(history)
  /\ segments # history[historyIndex + 1].segments
  /\ LET h == addToHistory(history, historyIndex, segments, editMode)
     IN /\ history' = h.history
        /\ historyIndex' = h.historyIndex
  /\ run' = RunCommit(run, segments, editMode)
  /\ Step
  /\ lastOp' = Op("blur", UnknownId, 0)
  /\ UNCHANGED <<variant, needsApiKey, storage, saveTimer, language, correctingSegmentId, now, sessionId, file, segments, editMode, status,
                 savedSessions, isDirty, saveStatus, calls>>


\* ---------------------------------------------------------- external calls
\* a call in flight: what the suspended handler holds, and the session the call
\* was issued for
Call(kind, mode, hist, idx, segIds, text) ==
  [kind |-> kind, t |-> now, mode |-> mode, hist |-> hist, idx |-> idx, ids |-> segIds,
   text |-> text, sid |-> IF kind = "transcribe" THEN now ELSE sessionId]

dropCall(i) == SubSeq(calls, 1, i - 1) \o SubSeq(calls, i + 1, Len(calls))

\* a variant that hands the remaining entries back in reverse order
withoutSessionReversed(sessions, id) ==
  LET rest == SelectSeq(sessions, LAMBDA s : s.id # id)
  IN [j \in 1..Len(rest) |-> rest[Len(rest) + 1 - j]]

\* savedSessions.filter(s => s.id !== id)
RECURSIVE withoutSession(_, _)
withoutSession(sessions, id) ==
  IF sessions = <<>> THEN <<>>
  ELSE IF Head(sessions).id = id THEN withoutSession(Tail(sessions), id)
       ELSE <<Head(sessions)>> \o withoutSession(Tail(sessions), id)

\* a variant that puts the new entry in front of the catalog as it is
saveCurrentSessionAppends(sid, segs, lang, mode, sessions) ==
  IF sid = NullId \/ Len(segs) = 0 THEN sessions
  ELSE <<StoredSession(sid, segs, lang, mode)>> \o sessions

\* a variant that saves whatever the store holds
saveCurrentSessionUnguarded(sid, segs, lang, mode, sessions) ==
  <<StoredSession(sid, segs, lang, mode)>> \o withoutSession(sessions, sid)

\* store.ts saveCurrentSession: the catalog after it ran on the given state
saveCurrentSession(sid, segs, lang, mode, sessions) ==
  IF sid = NullId \/ Len(segs) = 0 THEN sessions
  ELSE <<StoredSession(sid, segs, lang, mode)>> \o withoutSession(sessions, sid)

\* a variant whose new ids carry no index
refinedUnnumbered(data, segIds, t) ==
  [j \in 1..Len(data) |->
     Segment(IF j <= Len(segIds) THEN segIds[j] ELSE SegId("refined", 0, t),
             data[j].speaker, data[j].startTime, data[j].text)]

\* refineTranscript: ids re-attached by position, new ones beyond the input's length
refined(data, segIds, t) ==
  [j \in 1..Len(data) |->
     Segment(IF j <= Len(segIds) THEN segIds[j] ELSE SegId("refined", j - 1, t),
             data[j].speaker, data[j].startTime, data[j].text)]

\* Date.now() differs between two choices of a file
knownSessionIds ==
  {sessionId} \cup {savedSessions[j].id : j \in 1..Len(savedSessions)}
              \cup {calls[i].t : i \in {j \in 1..Len(calls) : calls[j].kind = "transcribe"}}

\* a file is chosen: on the landing page, or (local component) in the banner
\* that asks to reconnect the audio of a loaded session
handleFileChange ==
  /\ IF variant = "local" THEN landing \/ (~file /\ sessionId # NullId /\ Len(segments) > 0)
     ELSE landing
  /\ file' = TRUE
  /\ IF sessionId # NullId /\ Len(segments) > 0
     THEN /\ status' = "completed"
          /\ UNCHANGED <<sessionId, calls, isDirty, saveStatus>>
     ELSE /\ \E size \in FileSizes : size <= FileSizeCeiling
          /\ Len(calls) < MaxCalls
          /\ now \notin knownSessionIds
          /\ sessionId' = now
          /\ status' = "transcribing"
          /\ calls' = Append(calls, Call("transcribe", "RAW", <<>>, -1, <<>>, <<>>))
          /\ isDirty' = dirtyEffect(isDirty, TRUE, segments, now)
          /\ saveStatus' = saveStatusEffect(saveStatus, TRUE, segments, now)
  /\ Step
  /\ lastOp' = Op("file", UnknownId, 0)
  /\ UNCHANGED <<variant, needsApiKey, storage, saveTimer, language, correctingSegmentId, now, segments, editMode, history, historyIndex, savedSessions, run>>

TranscribeResolve(i, data) ==
  /\ calls[i].kind = "transcribe"
  /\ LET transcript == transcribed(data, now) IN
     /\ segments' = transcript
     /\ history' = <<HistoryState(transcript, "RAW")>>
     /\ historyIndex' = 0
     /\ status' = "completed"
     /\ IF variant # "local"
        THEN /\ savedSessions' = saveCurrentSession(sessionId, transcript, language, editMode, savedSessions)
             /\ storage' = savedSessions'
             /\ isDirty' = dirtyEffect(isDirty, TRUE, transcript, sessionId)
             /\ saveStatus' = saveStatusEffect(saveStatus, TRUE, transcript, sessionId)
        ELSE /\ isDirty' = TRUE
             /\ saveStatus' = saveStatusEffect(saveStatus, TRUE, transcript, sessionId)
             /\ UNCHANGED <<savedSessions, storage>>
  /\ calls' = dropCall(i)
  /\ run' = RunSeed(history', historyIndex')
  /\ Step
  /\ lastOp' = Op("create", UnknownId, calls[i].sid)
  /\ UNCHANGED <<variant, needsApiKey, saveTimer, language, correctingSegmentId, now, sessionId, file, editMode>>

TranscribeFail(i) ==
  /\ calls[i].kind = "transcribe"
  /\ status' = "error"
  /\ calls' = dropCall(i)
  /\ Step
  /\ lastOp' = Op("createFail", UnknownId, calls[i].sid)
  /\ UNCHANGED <<variant, needsApiKey, storage, saveTimer, language, correctingSegmentId, now, sessionId, file, segments, editMode, history, historyIndex,
                 savedSessions, isDirty, saveStatus, run>>

\* transcribeAudio's first statement: file.size > 25 * 1024 * 1024 (sizes in MB)
tooLarge(size) == size > FileSizeCeiling

\* a variant that tests the size only when the answer has arrived
handleFileChangeTooLargeCalls ==
  /\ landing
  /\ \E size \in FileSizes : tooLarge(size)
  /\ Len(calls) < MaxCalls
  /\ now \notin knownSessionIds
  /\ file' = TRUE
  /\ sessionId' = now
  /\ status' = "error"
  /\ calls' = Append(calls, Call("transcribe", "RAW", <<>>, -1, <<>>, <<>>))
  /\ isDirty' = dirtyEffect(isDirty, TRUE, segments, now)
  /\ saveStatus' = saveStatusEffect(saveStatus, TRUE, segments, now)
  /\ Step
  /\ lastOp' = Op("fileTooLarge", UnknownId, now)
  /\ UNCHANGED <<variant, needsApiKey, storage, saveTimer, language, correctingSegmentId, now,
                 segments, editMode, history, historyIndex, savedSessions, run>>

\* a file above the ceiling is chosen where a transcription would start:
\* transcribeAudio throws before it reads the key or the file, and the handler's
\* catch runs before any other event
handleFileChangeTooLarge ==
  /\ IF variant = "local" THEN landing \/ (~file /\ sessionId # NullId /\ Len(segments) > 0)
     ELSE landing
  /\ ~(sessionId # NullId /\ Len(segments) > 0)
  /\ \E size \in FileSizes : tooLarge(size)
  /\ now \notin knownSessionIds
  /\ file' = TRUE
  /\ sessionId' = now
  /\ status' = "error"
  /\ isDirty' = dirtyEffect(isDirty, TRUE, segments, now)
  /\ saveStatus' = saveStatusEffect(saveStatus, TRUE, segments, now)
  /\ Step
  /\ lastOp' = Op("fileTooLarge", UnknownId, now)
  /\ UNCHANGED <<variant, needsApiKey, storage, saveTimer, language, correctingSegmentId, now,
                 segments, editMode, history, historyIndex, savedSessions, calls, run>>

\* refine to CLEANED or JOURNALISTIC: the call is issued, the handler is suspended
handleRefine(mode) ==
  /\ ~landing
  /\ mode # "RAW"
  /\ mode # editMode
  /\ IF variant = "store" THEN Len(segments) > 0 ELSE ~isProcessing
  /\ Len(calls) < MaxCalls
  /\ status' = "refining"
  /\ calls' = Append(calls, Call("refine", mode, history, historyIndex, ids(segments), <<>>))
  /\ Step
  /\ lastOp' = Op("refine", UnknownId, 0)
  /\ UNCHANGED <<variant, needsApiKey, storage, saveTimer, language, correctingSegmentId, now, sessionId, file, segments, editMode, history, historyIndex,
                 savedSessions, isDirty, saveStatus, run>>

\* refine to RAW (local component only): refineTranscript finds no API key and
\* throws before it looks at the mode
handleRefineRawFails ==
  /\ variant = "local"
  /\ ~landing /\ ~isProcessing
  /\ editMode # "RAW"
  /\ status' = "error"
  /\ Step
  /\ lastOp' = Op("refineFail", UnknownId, sessionId)
  /\ UNCHANGED <<variant, needsApiKey, storage, saveTimer, language, correctingSegmentId, now, sessionId, file,
                 segments, editMode, history, historyIndex, savedSessions, isDirty, saveStatus,
                 calls, run>>

\* refine to RAW (local component only): refineTranscript returns its input at once
handleRefineRaw ==
  /\ variant = "local"
  /\ ~landing /\ ~isProcessing
  /\ editMode # "RAW"
  /\ LET h == addToHistory(history, historyIndex, segments, "RAW")
     IN /\ history' = h.history
        /\ historyIndex' = h.historyIndex
  /\ editMode' = "RAW"
  /\ status' = "completed"
  /\ isDirty' = dirtyEffect(isDirty, TRUE, segments, sessionId)
  /\ saveStatus' = saveStatusEffect(saveStatus, TRUE, segments, sessionId)
  /\ run' = RunCommit(run, segments, "RAW")
  /\ Step
  /\ lastOp' = Op("refineDone", UnknownId, sessionId)
  /\ UNCHANGED <<variant, needsApiKey, storage, saveTimer, language, correctingSegmentId, now, sessionId, file, segments, savedSessions, calls>>

\* the refine call answers: the handler resumes with the history of its closure
RefineResolve(i, data) ==
  /\ calls[i].kind = "refine"
  /\ LET newSegments == refined(data, calls[i].ids, now)
         h == addToHistory(calls[i].hist, calls[i].idx, newSegments, calls[i].mode)
     IN /\ segments' = newSegments
        /\ editMode' = calls[i].mode
        /\ history' = h.history
        /\ historyIndex' = h.historyIndex
        /\ run' = RunCommit(run, newSegments, calls[i].mode)
  /\ status' = "completed"
  /\ isDirty' = dirtyEffect(isDirty, TRUE, segments', sessionId)
  /\ saveStatus' = saveStatusEffect(saveStatus, TRUE, segments', sessionId)
  /\ calls' = dropCall(i)
  /\ Step
  /\ lastOp' = Op("refineDone", UnknownId, calls[i].sid)
  /\ UNCHANGED <<variant, needsApiKey, storage, saveTimer, language, correctingSegmentId, now, sessionId, file, savedSessions>>

\* a variant whose catch block leaves the status as it is
RefineFailSilent(i) ==
  /\ calls[i].kind = "refine"
  /\ calls' = dropCall(i)
  /\ Step
  /\ lastOp' = Op("refineFail", UnknownId, calls[i].sid)
  /\ UNCHANGED <<variant, needsApiKey, storage, saveTimer, language, correctingSegmentId, now, sessionId, file,
                 segments, editMode, status, history, historyIndex, savedSessions, isDirty,
                 saveStatus, run>>

RefineFail(i) ==
  /\ calls[i].kind = "refine"
  /\ status' = "error"
  /\ calls' = dropCall(i)
  /\ Step
  /\ lastOp' = Op("refineFail", UnknownId, calls[i].sid)
  /\ UNCHANGED <<variant, needsApiKey, storage, saveTimer, language, correctingSegmentId, now, sessionId, file, segments, editMode, history, historyIndex,
                 savedSessions, isDirty, saveStatus, run>>

\* ------------------------------------------- correction of one segment (store)
\* what the model may answer to a correction request
CorrectionAnswers == {<<>>, <<"a", " ">>}

\* correctSegmentText: response.text?.trim() || text
correctSegmentText(text, answer) ==
  IF trim(answer) = <<>> THEN text ELSE trim(answer)

\* the correction call is issued, the handler is suspended
handleCorrectSegment(id) ==
  /\ variant = "store" /\ editorActive
  /\ findIndex(segments, id) > 0
  /\ id # correctingSegmentId
  /\ Len(calls) < MaxCalls
  /\ correctingSegmentId' = id
  /\ calls' = Append(calls, Call("correct", editMode, history, historyIndex, <<id>>,
                                segments[findIndex(segments, id)].text))
  /\ Step
  /\ lastOp' = Op("correct", id, 0)
  /\ UNCHANGED <<variant, needsApiKey, storage, saveTimer, language, now, sessionId, file, segments, editMode, status, history,
                 historyIndex, savedSessions, isDirty, saveStatus, run>>

\* the correction call answers: the handler resumes with the history and the mode
\* of its closure and the segments of the store
CorrectResolve(i, answer) ==
  /\ calls[i].kind = "correct"
  /\ LET id == calls[i].ids[1]
         correctedText == correctSegmentText(calls[i].text, answer)
         newSegments == updatedText(segments, id, correctedText)
         h == addToHistory(calls[i].hist, calls[i].idx, newSegments, calls[i].mode)
     IN /\ segments' = newSegments
        /\ history' = h.history
        /\ historyIndex' = h.historyIndex
        /\ run' = RunCommit(run, newSegments, calls[i].mode)
        /\ lastOp' = Op("correctDone", id, 0)
  /\ correctingSegmentId' = UnknownId
  /\ isDirty' = dirtyEffect(isDirty, TRUE, segments', sessionId)
  /\ saveStatus' = saveStatusEffect(saveStatus, TRUE, segments', sessionId)
  /\ calls' = dropCall(i)
  /\ Step
  /\ UNCHANGED <<variant, needsApiKey, storage, saveTimer, language, now, sessionId, file, editMode, status, savedSessions>>

\* correctSegmentText finds no API key and throws: the handler's finally block runs
\* and the error leaves the handler
CorrectFail(i) ==
  /\ variant = "store"
  /\ calls[i].kind = "correct"
  /\ correctingSegmentId' = UnknownId
  /\ calls' = dropCall(i)
  /\ Step
  /\ lastOp' = Op("correctFail", calls[i].ids[1], 0)
  /\ UNCHANGED <<variant, needsApiKey, storage, saveTimer, language, now, sessionId, file, segments, editMode,
                 status, history, historyIndex, savedSessions, isDirty, saveStatus, run>>

\* ------------------------------------------------------------- sessions
\* store component: the landing page lists the saved sessions and loads one
loadSession(session) ==
  /\ variant = "store" /\ landing
  /\ sessionId' = session.id
  /\ segments' = session.segments
  /\ language' = session.language
  /\ editMode' = session.editMode
  /\ status' = "completed"
  /\ isDirty' = dirtyEffect(isDirty, TRUE, segments', sessionId')
  /\ saveStatus' = saveStatusEffect(saveStatus, TRUE, segments', sessionId')
  /\ run' = RunSeed(history, historyIndex)
  /\ Step
  /\ lastOp' = Op("load", UnknownId, 0)
  /\ UNCHANGED <<variant, needsApiKey, storage, saveTimer, correctingSegmentId, now, file, history, historyIndex,
                 savedSessions, calls>>

\* local component: landing page and sidebar; doLoad runs at once or after the dialog
requestLoadSession(session) ==
  /\ variant = "local"
  /\ sessionId' = session.id
  /\ segments' = session.segments
  /\ language' = session.language
  /\ editMode' = session.editMode
  /\ file' = FALSE
  /\ history' = <<HistoryState(session.segments, session.editMode)>>
  /\ historyIndex' = 0
  /\ status' = "completed"
  /\ isDirty' = dirtyEffect(FALSE, segments' # segments \/ editMode' # editMode \/ sessionId' # sessionId,
                            segments', sessionId')
  /\ saveStatus' = saveStatusEffect("saved", segments' # segments \/ editMode' # editMode \/ sessionId' # sessionId,
                            segments', sessionId')
  /\ run' = RunSeed(history', historyIndex')
  /\ Step
  /\ lastOp' = Op("load", UnknownId, 0)
  /\ UNCHANGED <<variant, needsApiKey, storage, saveTimer, correctingSegmentId, now, savedSessions, calls>>

\* store component: the header's "new" button
resetSession ==
  /\ IF variant = "review" THEN sessionView ELSE variant = "store" /\ ~landing
  /\ sessionId' = NullId
  /\ segments' = <<>>
  /\ editMode' = "RAW"
  /\ status' = "idle"
  /\ run' = NoRun
  /\ Step
  /\ lastOp' = Op("reset", UnknownId, 0)
  /\ UNCHANGED <<variant, needsApiKey, storage, saveTimer, language, correctingSegmentId, now, file, history, historyIndex, savedSessions, isDirty, saveStatus, calls>>

\* local component: the header's "new" button, after the dialog
resetApp ==
  /\ variant = "local" /\ ~landing /\ ~isProcessing
  /\ file' = FALSE
  /\ sessionId' = NullId
  /\ status' = "idle"
  /\ segments' = <<>>
  /\ history' = <<>>
  /\ historyIndex' = -1
  /\ isDirty' = FALSE
  /\ saveStatus' = "idle"
  /\ run' = NoRun
  /\ Step
  /\ lastOp' = Op("reset", UnknownId, 0)
  /\ UNCHANGED <<variant, needsApiKey, storage, saveTimer, language, correctingSegmentId, now, editMode, savedSessions, calls>>

\* store.ts deleteSession: the entry leaves the catalog; when it is the active
\* session's, resetSession runs
deleteSession(id) ==
  /\ variant = "store"
  /\ savedSessions' = withoutSession(savedSessions, id)
  /\ storage' = savedSessions'
  /\ IF sessionId = id
     THEN /\ sessionId' = NullId
          /\ segments' = <<>>
          /\ editMode' = "RAW"
          /\ status' = "idle"
          /\ run' = NoRun
     ELSE UNCHANGED <<sessionId, segments, editMode, status, run>>
  /\ Step
  /\ lastOp' = Op("deleteSession", id, 0)
  /\ UNCHANGED <<variant, needsApiKey, saveTimer, language, correctingSegmentId, now, file, history,
                 historyIndex, isDirty, saveStatus, calls>>

\* local component: requestDeleteSession, the dialog confirmed; the catalog without
\* the entry is set and written, and resetApp runs when the entry is the active
\* session's
requestDeleteSession(id) ==
  /\ variant = "local"
  /\ LET updated == withoutSession(savedSessions, id)
     IN /\ savedSessions' = updated
        /\ storage' = updated
  /\ IF sessionId = id
     THEN /\ file' = FALSE
          /\ sessionId' = NullId
          /\ status' = "idle"
          /\ segments' = <<>>
          /\ history' = <<>>
          /\ historyIndex' = -1
          /\ isDirty' = FALSE
          /\ saveStatus' = "idle"
          /\ run' = NoRun
     ELSE UNCHANGED <<file, sessionId, status, segments, history, historyIndex, isDirty,
                      saveStatus, run>>
  /\ Step
  /\ lastOp' = Op("deleteSession", id, 0)
  /\ UNCHANGED <<variant, needsApiKey, saveTimer, language, correctingSegmentId, now, editMode, calls>>

\* local component: the dialog confirmed and localStorage.setItem throws; the
\* catalog without the entry is already set, the error leaves the handler before
\* resetApp and before the dialog is closed
requestDeleteSessionFails(id) ==
  /\ variant = "local"
  /\ savedSessions' = withoutSession(savedSessions, id)
  /\ Step
  /\ lastOp' = Op("deleteSessionFail", id, 0)
  /\ UNCHANGED <<variant, needsApiKey, storage, saveTimer, language, correctingSegmentId, now,
                 sessionId, file, segments, editMode, status, history, historyIndex, isDirty,
                 saveStatus, calls, run>>

\* ------------------------------------------------------------ periodic save
\* everything a save leaves alone
saveFrame ==
  UNCHANGED <<variant, needsApiKey, language, correctingSegmentId, now, sessionId, file, segments, editMode,
              status, history, historyIndex, calls, run>>

\* a variant of saveSessionFails that clears the dirty flag all the same
saveSessionFailsClean ==
  /\ variant = "local"
  /\ sessionId # NullId /\ isDirty /\ Len(segments) > 0
  /\ saveStatus' = "error"
  /\ isDirty' = FALSE
  /\ Step
  /\ lastOp' = Op("saveFail", UnknownId, 0)
  /\ UNCHANGED <<savedSessions, storage, saveTimer>>
  /\ saveFrame

\* local component: saveSession, run by the interval; localStorage.setItem returns
saveSession ==
  /\ variant = "local"
  /\ IF sessionId = NullId \/ ~isDirty \/ Len(segments) = 0
     THEN /\ lastOp' = Op("saveSkip", UnknownId, 0)
          /\ UNCHANGED <<savedSessions, storage, isDirty, saveStatus>>
     ELSE LET sessionToSave == StoredSession(sessionId, segments, language, editMode)
              updated == <<sessionToSave>> \o withoutSession(savedSessions, sessionId)
          IN /\ storage' = updated
             /\ savedSessions' = updated
             /\ isDirty' = FALSE
             /\ saveStatus' = "saved"
             /\ lastOp' = Op("save", UnknownId, 0)
  /\ Step
  /\ UNCHANGED saveTimer
  /\ saveFrame

\* local component: saveSession, localStorage.setItem throws
saveSessionFails ==
  /\ variant = "local"
  /\ sessionId # NullId /\ isDirty /\ Len(segments) > 0
  /\ saveStatus' = "error"
  /\ Step
  /\ lastOp' = Op("saveFail", UnknownId, 0)
  /\ UNCHANGED <<savedSessions, storage, isDirty, saveTimer>>
  /\ saveFrame

\* store component: the interval's callback; 30 s lie between two of its runs, so
\* the timeout of the run before is over
autosave ==
  /\ variant = "store"
  /\ ~saveTimer
  /\ IF sessionId # NullId /\ isDirty /\ Len(segments) > 0
     THEN /\ saveStatus' = "saving"
          /\ savedSessions' = saveCurrentSession(sessionId, segments, language, editMode,
                                                 savedSessions)
          /\ storage' = savedSessions'
          /\ saveTimer' = TRUE
          /\ lastOp' = Op("save", UnknownId, 0)
     ELSE /\ lastOp' = Op("saveSkip", UnknownId, 0)
          /\ UNCHANGED <<savedSessions, storage, saveStatus, saveTimer>>
  /\ Step
  /\ UNCHANGED isDirty
  /\ saveFrame

\* store component: the timeout set by the interval's callback, 500 ms later
autosaveTimeout ==
  /\ variant = "store"
  /\ saveTimer
  /\ isDirty' = FALSE
  /\ saveStatus' = "saved"
  /\ saveTimer' = FALSE
  /\ Step
  /\ lastOp' = Op("saveDone", UnknownId, 0)
  /\ UNCHANGED <<savedSessions, storage>>
  /\ saveFrame

\* ------------------------------------------------- the first App component
\* App.tsx, first component: the store's session, the editor wired to the store's
\* mutators, the download with a final review, and the screen that asks for a key
\* handleError: the key screen is asked for when the error names the API key
KeyErrors == BOOLEAN

\* the transcription fails with an error that names the API key
TranscribeFailKey(i) ==
  /\ variant = "review"
  /\ calls[i].kind = "transcribe"
  /\ needsApiKey' = TRUE
  /\ status' = "error"
  /\ calls' = dropCall(i)
  /\ Step
  /\ lastOp' = Op("createFail", UnknownId, calls[i].sid)
  /\ UNCHANGED <<variant, storage, saveTimer, language, correctingSegmentId, now, sessionId, file,
                 segments, editMode, history, historyIndex, savedSessions, isDirty, saveStatus, run>>

\* the key screen's button, where the host offers a key selector
handleOpenKeySelector ==
  /\ variant = "review"
  /\ needsApiKey
  /\ needsApiKey' = FALSE
  /\ Step
  /\ lastOp' = Op("key", UnknownId, 0)
  /\ UNCHANGED <<variant, storage, saveTimer, language, correctingSegmentId, now, sessionId, file,
                 segments, editMode, status, history, historyIndex, savedSessions, isDirty,
                 saveStatus, calls, run>>

\* the download menu's "review and download": the review call is issued
handleDownloadWithReview ==
  /\ sessionView
  /\ Len(calls) < MaxCalls
  /\ status' = "refining"
  /\ calls' = Append(calls, Call("review", editMode, <<>>, -1, ids(segments), <<>>))
  /\ Step
  /\ lastOp' = Op("review", UnknownId, 0)
  /\ UNCHANGED <<variant, needsApiKey, storage, saveTimer, language, correctingSegmentId, now, sessionId,
                 file, segments, editMode, history, historyIndex, savedSessions, isDirty,
                 saveStatus, run>>

\* the review answers: the text is downloaded, the finally block runs
ReviewResolve(i) ==
  /\ variant = "review"
  /\ calls[i].kind = "review"
  /\ status' = "completed"
  /\ calls' = dropCall(i)
  /\ Step
  /\ lastOp' = Op("reviewDone", UnknownId, calls[i].sid)
  /\ UNCHANGED <<variant, needsApiKey, storage, saveTimer, language, correctingSegmentId, now, sessionId,
                 file, segments, editMode, history, historyIndex, savedSessions, isDirty,
                 saveStatus, run>>

\* the review fails: handleError sets the error status, then the finally block
\* sets the status to completed
ReviewFail(i, keyError) ==
  /\ variant = "review"
  /\ calls[i].kind = "review"
  /\ needsApiKey' = keyError
  /\ status' = "completed"
  /\ calls' = dropCall(i)
  /\ Step
  /\ lastOp' = Op("reviewFail", UnknownId, calls[i].sid)
  /\ UNCHANGED <<variant, storage, saveTimer, language, correctingSegmentId, now, sessionId, file,
                 segments, editMode, history, historyIndex, savedSessions, isDirty, saveStatus, run>>

\* the editor's correction button: the call is issued
onCorrectSegment(id) ==
  /\ sessionView
  /\ findIndex(segments, id) > 0
  /\ id # correctingSegmentId
  /\ Len(calls) < MaxCalls
  /\ correctingSegmentId' = id
  /\ calls' = Append(calls, Call("correct", editMode, <<>>, -1, <<id>>,
                                segments[findIndex(segments, id)].text))
  /\ Step
  /\ lastOp' = Op("correct", id, 0)
  /\ UNCHANGED <<variant, needsApiKey, storage, saveTimer, language, now, sessionId, file, segments,
                 editMode, status, history, historyIndex, savedSessions, isDirty, saveStatus, run>>

\* the correction answers: the store's updateSegment writes the text
onCorrectSegmentResolve(i, answer) ==
  /\ variant = "review"
  /\ calls[i].kind = "correct"
  /\ segments' = updatedText(segments, calls[i].ids[1], correctSegmentText(calls[i].text, answer))
  /\ correctingSegmentId' = UnknownId
  /\ calls' = dropCall(i)
  /\ Step
  /\ lastOp' = Op("correctDone", calls[i].ids[1], 0)
  /\ UNCHANGED <<variant, needsApiKey, storage, saveTimer, language, now, sessionId, file, editMode,
                 status, history, historyIndex, savedSessions, isDirty, saveStatus, run>>

\* correctSegmentText throws: handleError
onCorrectSegmentFail(i, keyError) ==
  /\ variant = "review"
  /\ calls[i].kind = "correct"
  /\ needsApiKey' = keyError
  /\ status' = "error"
  /\ correctingSegmentId' = UnknownId
  /\ calls' = dropCall(i)
  /\ Step
  /\ lastOp' = Op("correctFail", calls[i].ids[1], 0)
  /\ UNCHANGED <<variant, storage, saveTimer, language, now, sessionId, file, segments, editMode,
                 history, historyIndex, savedSessions, isDirty, saveStatus, run>>

\* the close button of the error message
dismissError ==
  /\ sessionView
  /\ status = "error"
  /\ status' = "completed"
  /\ Step
  /\ lastOp' = Op("dismiss", UnknownId, 0)
  /\ UNCHANGED <<variant, needsApiKey, storage, saveTimer, language, correctingSegmentId, now, sessionId,
                 file, segments, editMode, history, historyIndex, savedSessions, isDirty,
                 saveStatus, calls, run>>

\* -------------------------------------------------------------------- Next
\* cursor positions in the text of the segment with the given id
Positions(id) ==
  IF findIndex(segments, id) = 0 THEN {0}
  ELSE 0..Len(segments[findIndex(segments, id)].text)


\* the application: sessions, history, external calls and the editor
Next ==
  \/ Tick
  \/ handleUndo
  \/ handleRedo
  \/ \E id \in ScreenIds, t \in EditTexts : updateSegment(id, t)
  \/ \E id \in ScreenIds : deleteSegment(id)
  \/ \E id \in CallIds : mergeSegment(id)
  \/ \E id \in CallIds : \E pos \in Positions(id) : splitSegment(id, pos)
  \/ \E id \in ScreenIds, t \in EditTexts : handleSegmentChange(id, t)
  \/ \E id \in ScreenIds : handleDeleteSegment(id)
  \/ \E id \in CallIds : handleMergeSegment(id)
  \/ \E id \in CallIds : \E pos \in Positions(id) : handleSplitSegment(id, pos)
  \/ handleSegmentBlur
  \/ handleFileChange
  \/ handleFileChangeTooLarge
  \/ \E i \in 1..Len(calls), data \in Transcripts : TranscribeResolve(i, data)
  \/ \E i \in 1..Len(calls) : TranscribeFail(i)
  \/ \E mode \in EditModes : handleRefine(mode)
  \/ handleRefineRaw
  \/ handleRefineRawFails
  \/ \E i \in 1..Len(calls) :
       \E data \in RefineAnswers(Len(calls[i].ids), calls[i].mode) : RefineResolve(i, data)
  \/ \E i \in 1..Len(calls) : RefineFail(i)
  \/ \E id \in ScreenIds : handleCorrectSegment(id)
  \/ \E i \in 1..Len(calls), answer \in CorrectionAnswers : CorrectResolve(i, answer)
  \/ \E i \in 1..Len(calls) : CorrectFail(i)
  \/ \E j \in 1..Len(savedSessions) : loadSession(savedSessions[j])
  \/ \E j \in 1..Len(savedSessions) : requestLoadSession(savedSessions[j])
  \/ \E j \in 1..Len(savedSessions) : landing /\ deleteSession(savedSessions[j].id)
  \/ \E j \in 1..Len(savedSessions) : landing /\ requestDeleteSession(savedSessions[j].id)
  \/ \E j \in 1..Len(savedSessions) : landing /\ requestDeleteSessionFails(savedSessions[j].id)
  \/ resetSession
  \/ resetApp
  \/ saveSession
  \/ saveSessionFails
  \/ autosave
  \/ autosaveTimeout

Spec == Init /\ [][Next]_vars


\* --------------------------------------- the three components side by side
InitReview ==
  /\ variant = "review"
  /\ now = 2
  /\ sessionId = NullId
  /\ file = FALSE
  /\ segments = <<>>
  /\ editMode = "RAW"
  /\ status = "idle"
  /\ history = <<>>
  /\ historyIndex = -1
  /\ savedSessions \in PersistedCatalogs
  /\ isDirty = FALSE
  /\ correctingSegmentId = UnknownId
  /\ calls = <<>>
  /\ steps = 0
  /\ lastOp = Op("init", UnknownId, 0)
  /\ run = NoRun
  /\ retry = NoInvocation
  /\ saveStatus = "idle"
  /\ storage = savedSessions
  /\ saveTimer = FALSE
  /\ language = "es"
  /\ needsApiKey \in BOOLEAN
  /\ service = NoService
  /\ heap = NoHeap

NextReview ==
  \/ Tick
  \/ handleOpenKeySelector
  \/ handleFileChange
  \/ handleFileChangeTooLarge
  \/ \E i \in 1..Len(calls), data \in Transcripts : TranscribeResolve(i, data)
  \/ \E i \in 1..Len(calls) : TranscribeFail(i)
  \/ \E i \in 1..Len(calls) : TranscribeFailKey(i)
  \/ \E id \in ScreenIds, t \in EditTexts : updateSegment(id, t)
  \/ \E id \in ScreenIds : deleteSegment(id)
  \/ \E id \in CallIds : mergeSegment(id)
  \/ \E id \in CallIds : \E pos \in Positions(id) : splitSegment(id, pos)
  \/ \E id \in ScreenIds : onCorrectSegment(id)
  \/ \E i \in 1..Len(calls), answer \in CorrectionAnswers : onCorrectSegmentResolve(i, answer)
  \/ \E i \in 1..Len(calls), keyError \in KeyErrors : onCorrectSegmentFail(i, keyError)
  \/ handleDownloadWithReview
  \/ \E i \in 1..Len(calls) : ReviewResolve(i)
  \/ \E i \in 1..Len(calls), keyError \in KeyErrors : ReviewFail(i, keyError)
  \/ dismissError
  \/ resetSession

\* the first component on its own
SpecReview == InitReview /\ [][NextReview]_vars

NextApps ==
  \/ variant # "review" /\ Next
  \/ variant = "review" /\ NextReview

SpecApps == (Init \/ InitReview) /\ [][NextApps]_vars

\* ------------------------------------------------- the editor on any sequence
\* segment j of a stored sequence: its own id, speaker and start time, any text
StoredSegment(j, tx) ==
  Segment(SegId("seg", j - 1, 0),
          IF j = 1 THEN "S1" ELSE IF j = 2 THEN "S2" ELSE "S3",
          IF j = 1 THEN "00:00" ELSE IF j = 2 THEN "00:07" ELSE "00:15",
          tx)

StoredSequences ==
  UNION { {[j \in 1..n |-> StoredSegment(j, f[j])] : f \in [1..n -> Texts]} : n \in 1..MaxSegs }

\* a session of the persisted catalog has been loaded, with any segment sequence;
\* one more handler runs
InitSeg ==
  /\ variant \in Variants
  /\ now = 2
  /\ sessionId = 0
  /\ file = FALSE
  /\ segments \in StoredSequences
  /\ editMode = "RAW"
  /\ status = "completed"
  /\ history = IF variant = "store" THEN <<>> ELSE <<HistoryState(segments, "RAW")>>
  /\ historyIndex = IF variant = "store" THEN -1 ELSE 0
  /\ savedSessions = <<StoredSession(0, segments, "es", "RAW")>>
  /\ isDirty = (variant = "store" /\ Len(segments) > 0)
  /\ correctingSegmentId = UnknownId
  /\ calls = <<>>
  /\ steps = MaxSteps - 1
  /\ lastOp = Op("load", UnknownId, 0)
  /\ run = RunSeed(history, historyIndex)
  /\ retry = NoInvocation
  /\ saveStatus = "idle"
  /\ storage = savedSessions
  /\ saveTimer = FALSE
  /\ language = "es"
  /\ needsApiKey = FALSE
  /\ service = NoService
  /\ heap = NoHeap

NextSeg ==
  \/ \E id \in CallIds, t \in EditTexts : updateSegment(id, t)
  \/ \E id \in CallIds, sp \in EditSpeakers : updateSpeaker(id, sp)
  \/ \E id \in CallIds : deleteSegment(id)
  \/ \E id \in CallIds : mergeSegment(id)
  \/ \E id \in CallIds : \E pos \in Positions(id) : splitSegment(id, pos)
  \/ \E id \in CallIds, t \in EditTexts : handleSegmentChange(id, t)
  \/ \E id \in CallIds, sp \in EditSpeakers : handleSpeakerChange(id, sp)
  \/ \E id \in CallIds : handleDeleteSegment(id)
  \/ \E id \in CallIds : handleMergeSegment(id)
  \/ \E id \in CallIds : \E pos \in Positions(id) : handleSplitSegment(id, pos)

SpecSeg == InitSeg /\ [][NextSeg]_vars

\* ------------------------------------- the deletion of a session on any state
\* the catalog holds two sessions saved in any mode; none of them or one of them
\* has been loaded; sessions are deleted
InitDelete ==
  /\ variant \in Variants
  /\ now = 2
  /\ \E m0 \in EditModes, m1 \in EditModes :
       savedSessions = <<[PersistedSession1 EXCEPT !.editMode = m1],
                         [PersistedSession0 EXCEPT !.editMode = m0]>>
  /\ \E j \in 0..2 :
       IF j = 0
       THEN /\ sessionId = NullId /\ segments = <<>> /\ editMode = "RAW"
            /\ language = "es" /\ status = "idle"
       ELSE /\ sessionId = savedSessions[j].id
            /\ segments = savedSessions[j].segments
            /\ editMode = savedSessions[j].editMode
            /\ language = savedSessions[j].language
            /\ status = "completed"
  /\ file = FALSE
  /\ history = IF variant = "store" \/ sessionId = NullId THEN <<>>
               ELSE <<HistoryState(segments, editMode)>>
  /\ historyIndex = Len(history) - 1
  /\ isDirty = (Len(segments) > 0)
  /\ correctingSegmentId = UnknownId
  /\ calls = <<>>
  /\ steps = 0
  /\ lastOp = Op(IF sessionId = NullId THEN "init" ELSE "load", UnknownId, 0)
  /\ run = RunSeed(history, historyIndex)
  /\ retry = NoInvocation
  /\ saveStatus = "idle"
  /\ storage = savedSessions
  /\ saveTimer = FALSE
  /\ needsApiKey = FALSE
  /\ service = NoService
  /\ heap = NoHeap

NextDelete ==
  \/ \E j \in 1..Len(savedSessions) : deleteSession(savedSessions[j].id)
  \/ \E j \in 1..Len(savedSessions) : requestDeleteSession(savedSessions[j].id)
  \/ \E j \in 1..Len(savedSessions) : requestDeleteSessionFails(savedSessions[j].id)

SpecDelete == InitDelete /\ [][NextDelete]_vars

\* --------------------------------------------- generateWithRetry on its own
\* the application's variables, which generateWithRetry does not touch
appVars == <<variant, now, sessionId, file, segments, editMode, status, history,
             historyIndex, savedSessions, isDirty, correctingSegmentId, calls, steps,
             lastOp, run, saveStatus, storage, saveTimer, language, needsApiKey, service, heap>>

\* what the operation does on its first, second, ... call
OpBehaviours == [1..MaxRetries -> Outcomes]

\* generateWithRetry(modelInstance, params, retries) is entered: i = 0
InitRetry ==
  /\ variant \in Variants
  /\ now = 2
  /\ sessionId = NullId
  /\ file = FALSE
  /\ segments = <<>>
  /\ editMode = "RAW"
  /\ status = "idle"
  /\ history = <<>>
  /\ historyIndex = -1
  /\ savedSessions = <<>>
  /\ isDirty = FALSE
  /\ correctingSegmentId = UnknownId
  /\ calls = <<>>
  /\ steps = 0
  /\ lastOp = Op("init", UnknownId, 0)
  /\ run = NoRun
  /\ saveStatus = "idle"
  /\ storage = <<>>
  /\ saveTimer = FALSE
  /\ language = "es"
  /\ needsApiKey = FALSE
  /\ service = NoService
  /\ heap = NoHeap
  /\ \E r \in 0..MaxRetries, op \in OpBehaviours :
       retry = [pc |-> "call", retries |-> r, op |-> op, i |-> 0, called |-> 0,
                waits |-> <<>>, result |-> "none"]

\* return await modelInstance.generateContent(params): the call returns
generateContentReturns ==
  /\ retry.pc = "call" /\ retry.i < retry.retries
  /\ retry.op[retry.called + 1] = "ok"
  /\ retry' = [retry EXCEPT !.pc = "returned", !.called = retry.called + 1, !.result = "ok"]
  /\ UNCHANGED appVars

\* the call throws: the catch block waits and continues, or throws the error on
generateContentThrows ==
  /\ retry.pc = "call" /\ retry.i < retry.retries
  /\ retry.op[retry.called + 1] # "ok"
  /\ LET error == retry.op[retry.called + 1] IN
     IF (isRateLimit(error) \/ isOverloaded(error)) /\ attemptsLeft(retry.i, retry.retries)
     THEN retry' = [retry EXCEPT !.pc = "wait", !.called = retry.called + 1,
                                 !.waits = Append(retry.waits, waitTime(retry.i))]
     ELSE retry' = [retry EXCEPT !.pc = "thrown", !.called = retry.called + 1,
                                 !.result = error]
  /\ UNCHANGED appVars

\* await delay(waitTime) is over: continue with i + 1
delayElapsed ==
  /\ retry.pc = "wait"
  /\ retry' = [retry EXCEPT !.pc = "call", !.i = retry.i + 1]
  /\ UNCHANGED appVars

\* the loop condition i < retries fails: the function returns undefined
loopExit ==
  /\ retry.pc = "call" /\ ~(retry.i < retry.retries)
  /\ retry' = [retry EXCEPT !.pc = "returned", !.result = "undefined"]
  /\ UNCHANGED appVars

NextRetry ==
  \/ generateContentReturns
  \/ generateContentThrows
  \/ delayElapsed
  \/ loopExit

SpecRetry == InitRetry /\ [][NextRetry]_vars

\* ------------------------------------- the service's functions on their own
\* correctSegmentText and refineTranscript: the key is looked up, RAW returns at
\* once, generateWithRetry runs with its default of three attempts, the response
\* is turned into the result or the error is handled
ServiceOutcomes == {"ok", "status429", "other"}
ServiceBehaviours == [1..MaxRetries -> ServiceOutcomes]

\* response.text of a correction: nothing, blanks, or a text with a blank at its end
ServiceAnswers == CorrectionAnswers \cup {<<" ">>}

\* the ids of the segments handed to refineTranscript: those of a transcript, or
\* those an earlier refinement made (at time 1) for the items it added, after the
\* first segment was deleted
InputIds ==
  {[j \in 1..n |-> SegId("seg", j - 1, 0)] : n \in 0..MaxSegs}
    \cup {[j \in 1..n |-> SegId("refined", j, 1)] : n \in 1..MaxSegs}

\* the number of items of the parsed response; -1 when response.text is empty
ResponseCounts == -1..(MaxSegs + 1)

ServiceCall(fn, apiKey, mode, segIds, text, answer, count, op) ==
  [pc |-> "entry", fn |-> fn, apiKey |-> apiKey, mode |-> mode, segIds |-> segIds,
   text |-> text, answer |-> answer, count |-> count, op |-> op, value |-> <<>>]

InitService ==
  /\ variant \in Variants
  /\ now = 2
  /\ sessionId = NullId
  /\ file = FALSE
  /\ segments = <<>>
  /\ editMode = "RAW"
  /\ status = "idle"
  /\ history = <<>>
  /\ historyIndex = -1
  /\ savedSessions = <<>>
  /\ isDirty = FALSE
  /\ correctingSegmentId = UnknownId
  /\ calls = <<>>
  /\ steps = 0
  /\ lastOp = Op("init", UnknownId, 0)
  /\ run = NoRun
  /\ saveStatus = "idle"
  /\ storage = <<>>
  /\ saveTimer = FALSE
  /\ language = "es"
  /\ needsApiKey = FALSE
  /\ retry = NoInvocation
  /\ heap = NoHeap
  /\ \E apiKey \in BOOLEAN, op \in ServiceBehaviours :
       \/ \E text \in Texts, answer \in ServiceAnswers :
            service = ServiceCall("correctSegmentText", apiKey, "RAW", <<>>, text, answer, 0, op)
       \/ \E mode \in EditModes, segIds \in InputIds, count \in ResponseCounts :
            service = ServiceCall("refineTranscript", apiKey, mode, segIds, <<>>, <<>>, count, op)

\* everything but the two invocations
serviceFrame ==
  UNCHANGED <<variant, now, sessionId, file, segments, editMode, status, history, historyIndex,
              savedSessions, isDirty, correctingSegmentId, calls, steps, lastOp, run,
              saveStatus, storage, saveTimer, language, needsApiKey, heap>>

\* generateWithRetry(ai.models, {...}) is entered
generateWithRetryEntered ==
  [pc |-> "call", retries |-> DefaultRetries, op |-> service.op, i |-> 0, called |-> 0,
   waits |-> <<>>, result |-> "none"]

\* correctSegmentText up to its await: no key throws
correctSegmentTextEnters ==
  /\ service.pc = "entry" /\ service.fn = "correctSegmentText"
  /\ IF ~service.apiKey
     THEN /\ service' = [service EXCEPT !.pc = "raised"]
          /\ UNCHANGED retry
     ELSE /\ service' = [service EXCEPT !.pc = "generate"]
          /\ retry' = generateWithRetryEntered
  /\ serviceFrame

\* correctSegmentText after its await: the trimmed response or, when it is empty or
\* generateWithRetry threw, the text it was given
correctSegmentTextResumes ==
  /\ service.pc = "generate" /\ service.fn = "correctSegmentText"
  /\ retry.pc \in {"returned", "thrown"}
  /\ service' = [service EXCEPT
                   !.pc = "returned",
                   !.value = IF retry.pc = "thrown" THEN service.text
                             ELSE correctSegmentText(service.text, service.answer)]
  /\ UNCHANGED retry
  /\ serviceFrame

\* refineTranscript up to its await: no key throws, RAW returns the segments
refineTranscriptEnters ==
  /\ service.pc = "entry" /\ service.fn = "refineTranscript"
  /\ IF ~service.apiKey
     THEN /\ service' = [service EXCEPT !.pc = "raised"]
          /\ UNCHANGED retry
     ELSE IF service.mode = "RAW"
     THEN /\ service' = [service EXCEPT !.pc = "returned", !.value = service.segIds]
          /\ UNCHANGED retry
     ELSE /\ service' = [service EXCEPT !.pc = "generate"]
          /\ retry' = generateWithRetryEntered
  /\ serviceFrame

\* refineTranscript after its await: the items with their ids, or the error thrown on
refineTranscriptResumes ==
  /\ service.pc = "generate" /\ service.fn = "refineTranscript"
  /\ retry.pc \in {"returned", "thrown"}
  /\ IF retry.pc = "thrown" \/ service.count < 0
     THEN service' = [service EXCEPT !.pc = "raised"]
     ELSE service' = [service EXCEPT
                        !.pc = "returned",
                        !.value = ids(refined([j \in 1..service.count |-> RefinedItem(service.mode)],
                                              service.segIds, now))]
  /\ UNCHANGED retry
  /\ serviceFrame

NextService ==
  \/ correctSegmentTextEnters
  \/ correctSegmentTextResumes
  \/ refineTranscriptEnters
  \/ refineTranscriptResumes
  \/ generateContentReturns
  \/ generateContentThrows
  \/ delayElapsed

SpecService == InitService /\ [][NextService]_vars

\* ------------------------------------- arrays and objects behind the values
\* The store's segments and the history entries are references to arrays of
\* references to segment objects.  heap.arr and heap.obj hold the arrays and the
\* objects by address, heap.live is the array the store refers to, heap.hist the
\* entries with the address of their array.  An array or object is written only
\* where the code writes into it.
\* the segments an array refers to
Deref(h, a) == [i \in 1..Len(h.arr[a]) |-> h.obj[h.arr[a][i]]]

\* the history as values
DerefHistory(h) ==
  [p \in 1..Len(h.hist) |-> HistoryState(Deref(h, h.hist[p].segments), h.hist[p].mode)]

\* the array the store refers to is one a history entry refers to as well
aliased == \E p \in 1..Len(heap.hist) : heap.hist[p].segments = heap.live

\* new objects in a new array, which gets the address Len(h.arr) + 1
allocArray(h, segs) ==
  [h EXCEPT !.obj = @ \o segs,
            !.arr = Append(@, [i \in 1..Len(segs) |-> Len(h.obj) + i])]

\* addToHistory: history.slice(0, historyIndex + 1), and pushed onto the copy an
\* entry with JSON.parse(JSON.stringify(newSegments)), an array of new objects
addToHistoryRef(h, idx, a, mode) ==
  LET copied == allocArray(h, Deref(h, a))
  IN [copied EXCEPT !.hist = Append(SubSeq(h.hist, 1, idx + 1),
                                    [segments |-> Len(h.arr) + 1, mode |-> mode])]

\* segments.map(s => s.id === id ? { ...s, field: value } : s): a new array, new objects
\* for the segments with the id, the objects of the old array for the others
mapRef(h, id, field, value) ==
  LET old == h.arr[h.live]
      M == {i \in 1..Len(old) : h.obj[old[i]].id = id}
      rank(i) == Cardinality({j \in M : j <= i})
      nth(k) == CHOOSE i \in M : rank(i) = k
  IN [h EXCEPT !.obj = @ \o [k \in 1..Cardinality(M) |->
                                  [h.obj[old[nth(k)]] EXCEPT ![field] = value]],
               !.arr = Append(@, [i \in 1..Len(old) |->
                                    IF i \in M THEN Len(h.obj) + rank(i) ELSE old[i]]),
               !.live = Len(h.arr) + 1]

\* segments.filter(s => s.id !== id): a new array of the old objects
filterRef(h, id) ==
  [h EXCEPT !.arr = Append(@, SelectSeq(h.arr[h.live], LAMBDA o : h.obj[o].id # id)),
            !.live = Len(h.arr) + 1]

\* a variant that splices the store's array itself
mergeRefInPlace(h, id) ==
  LET old == h.arr[h.live]
      index == findIndex(Deref(h, h.live), id)
  IN IF index <= 1 THEN h
     ELSE LET prevSegment == h.obj[old[index - 1]]
              currentSegment == h.obj[old[index]]
              mergedText == prevSegment.text \o <<" ">> \o currentSegment.text
          IN [h EXCEPT !.obj = Append(@, [prevSegment EXCEPT !.text = mergedText]),
                       !.arr[h.live] = removeAt([old EXCEPT ![index - 1] = Len(h.obj) + 1], index)]

\* mergeSegment: [...segments], a new object at index - 1, splice(index, 1)
mergeRef(h, id) ==
  LET old == h.arr[h.live]
      index == findIndex(Deref(h, h.live), id)
  IN IF index <= 1 THEN h
     ELSE LET prevSegment == h.obj[old[index - 1]]
              currentSegment == h.obj[old[index]]
              mergedText == prevSegment.text \o <<" ">> \o currentSegment.text
          IN [h EXCEPT !.obj = Append(@, [prevSegment EXCEPT !.text = mergedText]),
                       !.arr = Append(@, removeAt([old EXCEPT ![index - 1] = Len(h.obj) + 1],
                                                  index)),
                       !.live = Len(h.arr) + 1]

\* splitSegment: [...segments], a new object at index, a new object spliced in
splitRef(h, id, cursorPosition, t) ==
  LET old == h.arr[h.live]
      index == findIndex(Deref(h, h.live), id)
  IN IF index = 0 THEN h
     ELSE LET originalSegment == h.obj[old[index]]
              textBefore == trim(substringTo(originalSegment.text, cursorPosition))
              textAfter == trim(substringFrom(originalSegment.text, cursorPosition))
              inserted == Segment(SegId("split", 0, t), "?", originalSegment.startTime,
                                  textAfter)
          IN [h EXCEPT !.obj = @ \o <<[originalSegment EXCEPT !.text = textBefore], inserted>>,
                       !.arr = Append(@, insertAt([old EXCEPT ![index] = Len(h.obj) + 1],
                                                  index + 1, Len(h.obj) + 2)),
                       !.live = Len(h.arr) + 1]

\* part_003 commits a structural edit with addToHistory(newSegments, editMode); the
\* store's mutators, handed to the editor as they are, commit nothing
committedRef(h) ==
  IF variant = "local" /\ h # heap THEN addToHistoryRef(h, historyIndex, h.live, editMode)
  ELSE h

\* everything the references are not about
heapFrame ==
  UNCHANGED <<variant, now, savedSessions, isDirty, correctingSegmentId, calls, run, retry,
              saveStatus, storage, saveTimer, language, needsApiKey, service>>

\* the heap a handler leaves, with the values of the store and of the history
\* read through the references; pos tells whether the store's array was an
\* entry's array when the handler ran
installRef(h, idx, mode, name, id) ==
  /\ steps < MaxSteps /\ steps' = steps + 1
  /\ heap' = h
  /\ segments' = Deref(h, h.live)
  /\ history' = DerefHistory(h)
  /\ historyIndex' = idx
  /\ editMode' = mode
  /\ lastOp' = Op(name, id, IF aliased THEN 1 ELSE 0)
  /\ heapFrame

\* handleFileChange with the transcript arrived: setSegments(transcript) and
\* setHistory([{ segments: transcript, mode: EditMode.RAW }]) with the same array
handleFileChangeRef(data) ==
  /\ sessionId = NullId
  /\ LET h == allocArray(heap, transcribed(data, now))
     IN installRef([h EXCEPT !.live = Len(heap.arr) + 1,
                             !.hist = <<[segments |-> Len(heap.arr) + 1, mode |-> "RAW"]>>],
                   0, "RAW", "create", UnknownId)
  /\ sessionId' = now
  /\ file' = TRUE
  /\ status' = "completed"

updateSegmentRef(id, newText) ==
  /\ sessionId # NullId
  /\ installRef(mapRef(heap, id, "text", newText),
                historyIndex, editMode, "editText", id)
  /\ UNCHANGED <<sessionId, file, status>>

updateSpeakerRef(id, newSpeaker) ==
  /\ sessionId # NullId
  /\ installRef(mapRef(heap, id, "speaker", newSpeaker),
                historyIndex, editMode, "editSpeaker", id)
  /\ UNCHANGED <<sessionId, file, status>>

deleteSegmentRef(id) ==
  /\ sessionId # NullId
  /\ LET h == committedRef(filterRef(heap, id))
     IN installRef(h, IF h.hist = heap.hist THEN historyIndex ELSE Len(h.hist) - 1,
                   editMode, "delete", id)
  /\ UNCHANGED <<sessionId, file, status>>

mergeSegmentRef(id) ==
  /\ sessionId # NullId
  /\ LET h == committedRef(mergeRef(heap, id))
     IN installRef(h, IF h.hist = heap.hist THEN historyIndex ELSE Len(h.hist) - 1,
                   editMode, "merge", id)
  /\ UNCHANGED <<sessionId, file, status>>

splitSegmentRef(id, cursorPosition) ==
  /\ sessionId # NullId
  /\ LET h == committedRef(splitRef(heap, id, cursorPosition, now))
     IN installRef(h, IF h.hist = heap.hist THEN historyIndex ELSE Len(h.hist) - 1,
                   editMode, "split", id)
  /\ UNCHANGED <<sessionId, file, status>>

\* part_003: on blur the store's segments are committed when they differ from the
\* entry at the cursor
handleSegmentBlurRef ==
  /\ variant = "local" /\ sessionId # NullId
  /\ historyIndex >= 0 /\ historyIndex < Len(history)
  /\ segments # history[historyIndex + 1].segments
  /\ LET h == addToHistoryRef(heap, historyIndex, heap.live, editMode)
     IN installRef(h, Len(h.hist) - 1, editMode, "blur", UnknownId)
  /\ UNCHANGED <<sessionId, file, status>>

\* handleUndo: setSegments(state.segments) hands the entry's array to the store
handleUndoRef ==
  /\ sessionId # NullId
  /\ historyIndex > 0 /\ historyIndex < Len(history)
  /\ LET state == heap.hist[historyIndex]
     IN installRef([heap EXCEPT !.live = state.segments], historyIndex - 1, state.mode,
                   "undo", UnknownId)
  /\ UNCHANGED <<sessionId, file, status>>

handleRedoRef ==
  /\ sessionId # NullId
  /\ historyIndex >= 0 /\ historyIndex < Len(history) - 1
  /\ LET state == heap.hist[historyIndex + 2]
     IN installRef([heap EXCEPT !.live = state.segments], historyIndex + 1, state.mode,
                   "redo", UnknownId)
  /\ UNCHANGED <<sessionId, file, status>>

\* handleRefine with the answer arrived in the render the request was made in:
\* setSegments(refined), an array of new objects, and addToHistory(refined, mode)
handleRefineRef(mode, data) ==
  /\ sessionId # NullId
  /\ mode # "RAW" /\ mode # editMode
  /\ Len(segments) > 0
  /\ LET h == allocArray(heap, refined(data, ids(segments), now))
         h1 == [h EXCEPT !.live = Len(heap.arr) + 1]
         h2 == addToHistoryRef(h1, historyIndex, h1.live, mode)
     IN installRef(h2, Len(h2.hist) - 1, mode, "refineDone", UnknownId)
  /\ UNCHANGED <<sessionId, file, status>>

\* the application starts with an empty catalog
InitHeap ==
  /\ variant \in Variants
  /\ now = 2
  /\ sessionId = NullId
  /\ file = FALSE
  /\ segments = <<>>
  /\ editMode = "RAW"
  /\ status = "idle"
  /\ history = <<>>
  /\ historyIndex = -1
  /\ savedSessions = <<>>
  /\ isDirty = FALSE
  /\ correctingSegmentId = UnknownId
  /\ calls = <<>>
  /\ steps = 0
  /\ lastOp = Op("init", UnknownId, 0)
  /\ run = NoRun
  /\ saveStatus = "idle"
  /\ storage = <<>>
  /\ saveTimer = FALSE
  /\ language = "es"
  /\ needsApiKey = FALSE
  /\ retry = NoInvocation
  /\ service = NoService
  /\ heap = NoHeap

NextHeap ==
  \/ \E data \in Transcripts : handleFileChangeRef(data)
  \/ \E id \in ScreenIds, newText \in EditTexts : updateSegmentRef(id, newText)
  \/ \E id \in ScreenIds, newSpeaker \in EditSpeakers : updateSpeakerRef(id, newSpeaker)
  \/ \E id \in ScreenIds : deleteSegmentRef(id)
  \/ \E id \in ScreenIds : mergeSegmentRef(id)
  \/ \E id \in ScreenIds : \E pos \in Positions(id) : splitSegmentRef(id, pos)
  \/ handleSegmentBlurRef
  \/ handleUndoRef
  \/ handleRedoRef
  \/ \E mode \in EditModes : handleRefineRef(mode, [i \in 1..Len(segments) |-> RefinedItem(mode)])

SpecHeap == InitHeap /\ [][NextHeap]_vars

\* ------------------------------------------------------------------ claims
Live == HistoryState(segments, editMode)

idsOf(segs) == {segs[j].id : j \in 1..Len(segs)}

\* a step that pushes a history entry
CommitStep ==
  /\ lastOp'.op \in {"delete", "merge", "split", "blur", "refineDone", "correctDone"}
  /\ history' # history \/ historyIndex' # historyIndex

\* C1: from a history of one entry with the cursor on it, after k commits, k undos
\* make the live segments and mode equal to the seeded entry, and k redos after
\* them make the live segments and mode equal to the entry committed last
C1_UndoRedoRoundTrip ==
  /\ (lastOp.op = "undo" /\ run.ph = "u" /\ run.n = run.k) => Live = run.init
  /\ (lastOp.op = "redo" /\ run.ph = "r" /\ run.n = run.k) => Live = run.last

\* C2: a commit drops the entries after the cursor, keeps the entries up to the
\* cursor as they are, appends one entry equal to the committed (segments, mode)
\* and moves the cursor to the last index
C2_CommitTruncatesAndAppends ==
  [][CommitStep =>
       /\ history' = Append(SubSeq(history, 1, historyIndex + 1), Live')
       /\ historyIndex' = Len(history') - 1]_vars

\* C3: undo with the cursor above 0 moves the cursor one down and installs the
\* entry it then points at, the stack unchanged; undo with the cursor at 0 or
\* below changes neither segments, mode, stack nor cursor
C3_Undo ==
  [][lastOp'.op = "undo" =>
       IF historyIndex > 0
       THEN /\ historyIndex' = historyIndex - 1
            /\ history' = history
            /\ Live' = history'[historyIndex' + 1]
       ELSE UNCHANGED <<segments, editMode, history, historyIndex>>]_vars

\* an undo has moved the cursor down from an entry that differs from the installed one
C3_UndoInstalled ==
  /\ lastOp.op = "undo" /\ run.ph = "u"
  /\ historyIndex >= 0 /\ historyIndex + 1 < Len(history)
  /\ Live = history[historyIndex + 1]
  /\ Live # history[historyIndex + 2]

\* C4: redo with the cursor below the last index moves the cursor one up and
\* installs the entry it then points at, the stack unchanged; redo with the
\* cursor on the last entry changes nothing
C4_Redo ==
  [][lastOp'.op = "redo" =>
       IF historyIndex < Len(history) - 1
       THEN /\ historyIndex' = historyIndex + 1
            /\ history' = history
            /\ Live' = history'[historyIndex' + 1]
       ELSE UNCHANGED <<segments, editMode, history, historyIndex>>]_vars

\* a redo has moved the cursor up to an entry that differs from the one before it
C4_RedoInstalled ==
  /\ lastOp.op = "redo" /\ run.ph = "r"
  /\ historyIndex > 0 /\ historyIndex < Len(history)
  /\ Live = history[historyIndex + 1]
  /\ Live # history[historyIndex]

\* C5: after a session is created or loaded the history is exactly one entry,
\* equal to the session's (segments, mode), with the cursor 0, and after a reset
\* the stack is empty, so that undo and redo only install entries of the active
\* session
C5_HistoryReseeded ==
  /\ lastOp.op \in {"create", "load"} => history = <<Live>> /\ historyIndex = 0
  /\ lastOp.op = "reset" => history = <<>>

\* C6: a delete, merge or split that changes the sequence is committed at once:
\* the entry at the cursor equals the live (segments, mode) and the entry before
\* it is the one that was at the cursor before
C6_StructuralEditCommitted ==
  [][(lastOp'.op \in {"delete", "merge", "split"} /\ segments' # segments) =>
       /\ historyIndex >= 0
       /\ historyIndex' = historyIndex + 1
       /\ historyIndex' < Len(history')
       /\ history'[historyIndex' + 1] = Live'
       /\ history'[historyIndex'] = history[historyIndex + 1]]_vars

\* C7: merge on a segment at index i > 0 makes the sequence one shorter, gives
\* the segment at i-1 the text prev.text + " " + curr.text, and the segment
\* that was at i is no longer in the sequence
C7_MergeJoinsTexts ==
  [][lastOp'.op = "merge" =>
       \A i \in 2..Len(segments) :
         segments[i].id = lastOp'.id =>
           /\ Len(segments') = Len(segments) - 1
           /\ segments'[i - 1].text = segments[i - 1].text \o <<" ">> \o segments[i].text
           /\ \A j \in 1..Len(segments') : segments'[j] # segments[i]]_vars

\* C8: merge on the first segment, or on an id that no segment has, leaves the
\* sequence, the stack and the cursor unchanged
C8_MergeNoOp ==
  [][(/\ lastOp'.op = "merge"
      /\ \/ segments # <<>> /\ segments[1].id = lastOp'.id
         \/ lastOp'.id \notin idsOf(segments)) =>
       UNCHANGED <<segments, history, historyIndex>>]_vars

\* merge was called on the first of several segments
C8_MergeOnFirst ==
  /\ lastOp.op = "merge"
  /\ Len(segments) > 1
  /\ segments[1].id = lastOp.id

\* C9: after merge on a segment at index i > 0 the merged segment has the
\* predecessor's id, speaker and startTime and every other segment is unchanged
\* and in its place
C9_MergeFrame ==
  [][lastOp'.op = "merge" =>
       \A i \in 2..Len(segments) :
         segments[i].id = lastOp'.id =>
           /\ Len(segments') = Len(segments) - 1
           /\ segments'[i - 1].id = segments[i - 1].id
           /\ segments'[i - 1].speaker = segments[i - 1].speaker
           /\ segments'[i - 1].startTime = segments[i - 1].startTime
           /\ \A j \in 1..(i - 2) : segments'[j] = segments[j]
           /\ \A j \in (i + 1)..Len(segments) : segments'[j - 1] = segments[j]]_vars

\* C10: split of the segment S at index i at a cursor position in its text makes
\* the sequence one longer: S stays at i with the trimmed text before the
\* cursor, a new segment follows at i+1 with an id no segment had, speaker "?",
\* S's startTime and the trimmed text after the cursor, every other segment is
\* unchanged and in order; split on an id that no segment has changes nothing
C10_Split ==
  [][lastOp'.op = "split" =>
       /\ lastOp'.id \notin idsOf(segments) => segments' = segments
       /\ \A i \in 1..Len(segments) :
            (segments[i].id = lastOp'.id /\ lastOp'.pos \in 0..Len(segments[i].text)) =>
              LET S == segments[i]
                  pos == lastOp'.pos
              IN /\ Len(segments') = Len(segments) + 1
                 /\ segments'[i] = [S EXCEPT !.text = trim(SubSeq(S.text, 1, pos))]
                 /\ segments'[i + 1].id \notin idsOf(segments)
                 /\ segments'[i + 1].speaker = "?"
                 /\ segments'[i + 1].startTime = S.startTime
                 /\ segments'[i + 1].text = trim(SubSeq(S.text, pos + 1, Len(S.text)))
                 /\ \A j \in 1..(i - 1) : segments'[j] = segments[j]
                 /\ \A j \in (i + 1)..Len(segments) : segments'[j + 1] = segments[j]]_vars

\* C11: split of a segment S at a position of its text, followed by merge on the
\* id of the segment the split created, gives the sequence the split ran on with
\* only the text of S replaced by trim(textBefore) + " " + trim(textAfter)
C11_SplitThenMerge ==
  [][(lastOp.op = "split" /\ lastOp'.op = "merge") =>
       LET orig == lastOp.segs
           i == findIndex(orig, lastOp.id)
       IN (i > 0 /\ Len(segments) = Len(orig) + 1 /\ lastOp'.id = segments[i + 1].id) =>
            segments' = [orig EXCEPT ![i].text =
                           trim(SubSeq(orig[i].text, 1, lastOp.pos)) \o <<" ">>
                             \o trim(SubSeq(orig[i].text, lastOp.pos + 1, Len(orig[i].text)))]]_vars

\* C12: no two segments of the live sequence have the same id
C12_UniqueIds == Cardinality(idsOf(segments)) = Len(segments)

\* C13: an edit of the text changes only the text of the segments with the given
\* id, an edit of the speaker only their speaker; length, order, ids and all
\* other fields stay, and with an id no segment has the sequence is unchanged
C13_EditFrame ==
  [][/\ lastOp'.op = "editText" =>
          /\ Len(segments') = Len(segments)
          /\ \A j \in 1..Len(segments) :
                IF segments[j].id = lastOp'.id
                THEN /\ segments'[j].text \in EditTexts
                     /\ segments'[j] = [segments[j] EXCEPT !.text = segments'[j].text]
                ELSE segments'[j] = segments[j]
     /\ lastOp'.op = "editSpeaker" =>
          /\ Len(segments') = Len(segments)
          /\ \A j \in 1..Len(segments) :
                IF segments[j].id = lastOp'.id
                THEN /\ segments'[j].speaker \in EditSpeakers
                     /\ segments'[j] = [segments[j] EXCEPT !.speaker = segments'[j].speaker]
                ELSE segments'[j] = segments[j]
     /\ (lastOp'.op \in {"editText", "editSpeaker"} /\ lastOp'.id \notin idsOf(segments)) =>
          segments' = segments]_vars

\* an edit of the text of one of several segments has changed the sequence
C13_TextEdited ==
  /\ lastOp.op = "editText"
  /\ lastOp.id \in idsOf(segments)
  /\ Len(segments) > 1
  /\ Len(savedSessions) = 1
  /\ savedSessions[1].segments # segments

\* C14: delete removes the segment with the given id and nothing else: the others
\* keep their values and order, the length drops by one when the id is present
\* (to the empty sequence from a single segment) and not at all otherwise
C14_Delete ==
  [][lastOp'.op = "delete" =>
       LET i == findIndex(segments, lastOp'.id)
       IN IF i > 0 THEN segments' = removeAt(segments, i)
          ELSE segments' = segments]_vars

\* the invocation of generateWithRetry is over
Finished == retry.pc \in {"returned", "thrown"}

RateLimitSignals == {"message429", "status429", "code429"}
OverloadSignals == {"message503", "status503"}

\* C15: when the operation fails with a rate-limit or overload signal on its
\* first n calls and succeeds on call n + 1, n below the number of retries, the
\* invocation returns that result after exactly n + 1 calls, having waited
\* BaseDelay * 2^0, ..., BaseDelay * 2^(n-1) in this order
C15_RetryThenSuccess ==
  \A n \in 0..(MaxRetries - 1) :
    ( /\ Finished
      /\ n < retry.retries
      /\ \A k \in 1..n : retry.op[k] \in RateLimitSignals \cup OverloadSignals
      /\ retry.op[n + 1] = "ok" )
    => /\ retry.pc = "returned"
       /\ retry.result = "ok"
       /\ retry.called = n + 1
       /\ retry.waits = [k \in 1..n |-> BaseDelay * 2^(k - 1)]

\* success on the third call after two signals, with waits of 3000 and 6000
C15_ThirdCallSucceeds ==
  /\ retry.pc = "returned" /\ retry.result = "ok"
  /\ retry.called = DefaultRetries
  /\ retry.waits = <<3000, 6000>>

\* C16: when the operation fails with a rate-limit signal on every call and the
\* number of retries is at least 1, the invocation calls it exactly that many
\* times, waits one time fewer (never after the last call) and throws the error
\* of the last call
C16_RetriesExhausted ==
  ( /\ retry.retries >= 1
    /\ \A k \in 1..retry.retries : retry.op[k] \in RateLimitSignals )
  => /\ retry.pc = "wait" => retry.called < retry.retries
     /\ retry.pc # "returned"
     /\ retry.pc = "thrown" =>
          /\ retry.called = retry.retries
          /\ Len(retry.waits) = retry.retries - 1
          /\ retry.result = retry.op[retry.retries]

\* three calls have failed with rate-limit signals and the last error is thrown
C16_ThrownAfterThree ==
  /\ retry.pc = "thrown"
  /\ retry.retries = DefaultRetries /\ retry.called = DefaultRetries
  /\ \A k \in 1..retry.retries : retry.op[k] \in RateLimitSignals
  /\ Len(retry.waits) = 2

\* C17: when the first call fails with an error that carries neither signal, the
\* invocation calls the operation once, waits never and throws that error
C17_NonRetryable ==
  (retry.pc # "none" /\ retry.retries >= 1 /\ retry.op[1] = "other") =>
    /\ retry.pc \in {"call", "thrown"}
    /\ retry.waits = <<>>
    /\ retry.pc = "call" => retry.called = 0
    /\ retry.pc = "thrown" => retry.called = 1 /\ retry.result = retry.op[1]

\* the first call has failed with another error, which is thrown at once
C17_ThrownAtOnce ==
  /\ retry.pc = "thrown" /\ retry.result = "other"
  /\ retry.retries = DefaultRetries /\ retry.called = 1
  /\ retry.waits = <<>>

\* a run of the periodic save, whatever it did
FlushOps == {"save", "saveFail", "saveSkip"}

\* the entry the catalog must hold for the live session
LiveEntry == StoredSession(sessionId, segments, language, editMode)

\* C18: a save of a dirty session with segments leaves exactly one catalog entry
\* with the session's id, holding the live segments, language and mode, in memory
\* and in storage, and the dirty flag is cleared (by the save itself, or by the
\* timeout the save has set); a save run directly after that writes nothing
C18_Flush ==
  [][/\ lastOp'.op = "save" =>
          /\ Cardinality({j \in 1..Len(savedSessions') : savedSessions'[j].id = sessionId}) = 1
          /\ \E j \in 1..Len(savedSessions') : savedSessions'[j] = LiveEntry
          /\ storage' = savedSessions'
          /\ IF variant = "local" THEN ~isDirty' ELSE saveTimer'
     /\ lastOp'.op = "saveDone" => ~isDirty'
     /\ (lastOp.op \in {"save", "saveDone"} /\ lastOp'.op \in FlushOps) =>
          /\ lastOp'.op = "saveSkip"
          /\ UNCHANGED <<savedSessions, storage, isDirty>>]_vars

\* a second save has run after a completed one and has found nothing to do
C18_SecondFlushSkipped ==
  /\ lastOp.op = "saveSkip"
  /\ saveStatus = "saved" /\ ~isDirty
  /\ sessionId # NullId /\ Len(segments) > 0
  /\ Cardinality({j \in 1..Len(savedSessions) : savedSessions[j].id = sessionId}) = 1
  /\ \E j \in 1..Len(savedSessions) : savedSessions[j] = LiveEntry

\* C19: a save with no session id or with an empty segment sequence leaves the
\* catalog as it is and writes nothing to storage; so does the save at the end
\* of a transcription when the session id is null by then
C19_FlushNothing ==
  [][/\ (lastOp'.op \in FlushOps /\ (sessionId = NullId \/ Len(segments) = 0)) =>
          /\ lastOp'.op = "saveSkip"
          /\ UNCHANGED <<savedSessions, storage>>
     /\ (lastOp'.op = "create" /\ sessionId = NullId) =>
          UNCHANGED <<savedSessions, storage>>]_vars

\* a save has run on a session that has an id and no segments yet
C19_SkippedWhileEmpty ==
  /\ lastOp.op = "saveSkip"
  /\ sessionId # NullId /\ segments = <<>>

Others(sessions, id) == SelectSeq(sessions, LAMBDA s : s.id # id)

\* C21: the catalog never holds two entries with the same session id, and right
\* after a save that wrote, the entry of the active session is the first one and
\* the entries behind it are the other entries the catalog held before, in the
\* order they had
C21_Catalog ==
  /\ \A i \in 1..Len(savedSessions), j \in 1..Len(savedSessions) :
       savedSessions[i].id = savedSessions[j].id => i = j
  /\ lastOp.op = "save" =>
       /\ savedSessions # <<>>
       /\ savedSessions[1].id = sessionId
       /\ Tail(savedSessions) = Others(lastOp.cat, sessionId)

\* a new session was saved in front of the two entries the catalog held
C21_SavedInFront ==
  /\ lastOp.op = "save"
  /\ Len(lastOp.cat) >= 2
  /\ Len(savedSessions) = 3
  /\ savedSessions[1] = LiveEntry
  /\ Others(lastOp.cat, sessionId) = <<PersistedSession1, PersistedSession0>>

C23_NoCallWhileProcessing ==
  [][(isProcessing /\ lastOp'.op \in {"file", "refine"}) => calls' = calls]_vars

\* C24: when the answer of a transcribe or refine call arrives and the active
\* session is not the one the call was issued for, the answer is dropped: the
\* segments, the mode and the history stay as they are
C24_StaleAnswerDropped ==
  [][(lastOp'.op \in {"create", "refineDone"} /\ lastOp'.pos # sessionId) =>
       UNCHANGED <<segments, editMode, history, historyIndex>>]_vars

\* C25: the segment of every correction call in flight is the one marked as
\* being corrected, which the editor renders read-only
C25_InFlightReadOnly ==
  \A i \in 1..Len(calls) :
     calls[i].kind = "correct" => correctingSegmentId = calls[i].ids[1]

\* the transcribe, refine and review calls in flight
LongCalls == {i \in 1..Len(calls) : calls[i].kind \in {"transcribe", "refine", "review"}}

\* the handlers that run when such a call has ended
AnswerOps == {"create", "createFail", "refineDone", "refineFail", "reviewDone", "reviewFail"}
FailureOps == {"createFail", "refineFail", "reviewFail"}

\* C26: when a transcribe, refine or review call has ended and its handler has
\* run, the status is none of uploading, transcribing and refining; the status
\* is none of these either whenever no such call is in flight
C26_NotStuck ==
  /\ lastOp.op \in AnswerOps => ~isProcessing
  /\ LongCalls = {} => ~isProcessing

\* a review has failed, no call is left and the status is not a loading one
C26_ReviewFailed ==
  /\ lastOp.op = "reviewFail"
  /\ calls = <<>>
  /\ ~isProcessing

\* C27: when a transcribe, refine or review call has failed and its handler has
\* run, the status is 'error'
C27_FailureShown == lastOp.op \in FailureOps => status = "error"

\* the invocation of the service's function is over
ServiceDone == service.pc \in {"returned", "raised"}

\* C28: correctSegmentText never throws, and when it gets no corrected text (no
\* key, generateWithRetry threw, the response is empty or blank) it returns the
\* text it was given
C28_NeverRaises ==
  (service.pc # "none" /\ service.fn = "correctSegmentText" /\ ServiceDone) =>
     /\ service.pc = "returned"
     /\ (~service.apiKey \/ retry.pc = "thrown" \/ trim(service.answer) = <<>>) =>
          service.value = service.text

\* C29: refineTranscript with mode RAW returns the segments it was given and
\* calls nothing
C29_RawIsNoOp ==
  (service.pc # "none" /\ service.fn = "refineTranscript" /\ service.mode = "RAW"
     /\ ServiceDone) =>
     /\ service.pc = "returned"
     /\ service.value = service.segIds
     /\ retry.called = 0

\* C30: when the refinement is answered with m items for n segments, the result
\* has m items, item j has the id of segment j for j up to the smaller of m and
\* n, and the items behind the n-th have ids that are none of the input's and
\* differ from each other
C30_RefinedIds ==
  (service.pc = "returned" /\ service.fn = "refineTranscript" /\ service.mode # "RAW") =>
     LET n == Len(service.segIds)
         m == service.count
         out == service.value
     IN /\ Len(out) = m
        /\ \A j \in 1..m : j <= n => out[j] = service.segIds[j]
        /\ \A j \in 1..m : j > n =>
              /\ \A k \in 1..n : out[j] # service.segIds[k]
              /\ \A k \in 1..m : (k > n /\ k # j) => out[k] # out[j]

\* a refinement of segments with ids of an earlier refinement came back with two
\* items more than it was given
C30_TwoItemsAdded ==
  /\ service.pc = "returned" /\ service.fn = "refineTranscript" /\ service.mode = "CLEANED"
  /\ Len(service.segIds) >= 1
  /\ service.segIds[1].k = "refined"
  /\ service.count = Len(service.segIds) + 2
  /\ Len(service.value) = service.count

C32_DirtyWhenUnsaved ==
  (/\ variant \in {"store", "local"}
   /\ sessionId # NullId
   /\ Len(segments) > 0
   /\ \A j \in 1..Len(storage) : storage[j] # LiveEntry)
  => isDirty

\* C33: when another saved session is loaded while the active session is dirty,
\* the catalog afterwards holds the active session as it was at the switch
C33_SavedOnSwitch ==
  [][(/\ variant = "local"
      /\ lastOp'.op = "load" /\ steps' # steps
      /\ sessionId # NullId /\ isDirty /\ Len(segments) > 0
      /\ sessionId' # sessionId)
     => \E j \in 1..Len(savedSessions') : savedSessions'[j] = LiveEntry]_vars

\* C34: when a refine or correction call of the active session answers, the
\* commit keeps every entry that lies at or before the cursor at that moment
C34_CommitOnCurrentHistory ==
  [][\A i \in 1..Len(calls) :
       (/\ calls[i].kind \in {"refine", "correct"}
        /\ calls[i].sid = sessionId
        /\ calls' = dropCall(i)
        /\ lastOp'.op \in {"refineDone", "correctDone"})
       => /\ Len(history') > historyIndex
          /\ SubSeq(history', 1, historyIndex + 1) = SubSeq(history, 1, historyIndex + 1)]_vars

\* C35: the array a history entry refers to holds the same segments after every
\* step, whatever the step does to the store
C35_EntriesImmutable ==
  [][\A p \in 1..Len(heap.hist) :
       Deref(heap', heap.hist[p].segments) = Deref(heap, heap.hist[p].segments)]_vars

\* a merge has changed the store's segments while the store referred to the
\* array of a history entry, the one undo installed or the seed
C35_MergedWhileAliased ==
  /\ lastOp.op = "merge" /\ lastOp.pos = 1
  /\ Len(heap.hist) > 1
  /\ \E p \in 1..Len(heap.hist) : Len(Deref(heap, heap.hist[p].segments)) > Len(segments)

\* C36: a failed call is followed by a wait and another call only when the
\* error's status is 429 or 503 and the attempt index is below retries - 1; an
\* error that carries 429 or 503 in its message or code only is thrown on
C36_RetryOnlyOnStatus ==
  [][(retry.pc = "call" /\ retry'.pc = "wait")
       => /\ retry.op[retry.called + 1] \in {"status429", "status503"}
          /\ retry.i < retry.retries - 1]_vars

C38_ChangedTextKept ==
  [][\A i \in 1..Len(calls) :
       (/\ calls[i].kind = "correct"
        /\ calls' = dropCall(i)
        /\ lastOp'.op = "correctDone" /\ lastOp'.id = calls[i].ids[1])
       => \A j \in 1..Len(segments) :
            (segments[j].id = calls[i].ids[1] /\ segments[j].text # calls[i].text)
            => (j <= Len(segments') /\ segments'[j].text = segments[j].text)]_vars

\* C39: after a flush or the deletion of a saved session, successful or failed,
\* the catalog in memory is the catalog in local storage
C39_CatalogIsStored ==
  lastOp.op \in FlushOps \cup {"deleteSession", "deleteSessionFail"} => savedSessions = storage

====
